---- MODULE Spec2Model ----
(***************************************************************************)
(* Model of the invoice application: the ZATCA QR payload builder          *)
(* (src/src/utils/qrCodeUtils.ts), the invoice form (InvoiceForm) and the  *)
(* invoice service with the document database it writes to.                *)
(*                                                                         *)
(* Representation of JavaScript values:                                    *)
(*   - a string is a sequence of UTF-16 code units (naturals < 65536);     *)
(*   - an optional string is [defined |-> BOOLEAN, s |-> string];          *)
(*   - a byte array (Uint8Array) is a sequence of naturals < 256;          *)
(*   - a time value (the number a Date holds) is [nan, day, ms]: day is    *)
(*     the number of days since 1970-01-01 and ms the millisecond within   *)
(*     that day, so that the time value is day * 86400000 + ms;            *)
(*   - a Number is a record [kind, neg, milli, err, digits, exp], see      *)
(*     the section on Number.prototype.toFixed.                            *)
(***************************************************************************)
EXTENDS Integers, Sequences, FiniteSets, TLC

VARIABLES
  invoice,    \* the invoice object handed to generateZatcaQrCode
  now,        \* the wall clock: the time value new Date() would hold
  engine,     \* which of the two ISO day-of-month policies the JS engine has
  qrCalls,    \* the calls of generateZatcaQrCode made so far, oldest first
  tlvCalls,   \* the calls of encodeTLV made directly, oldest first
  sites,      \* the calls of generateZatcaQrCode in progress, by call site
  buffers,    \* the Uint8Array buffers those calls have allocated
  form,       \* the state of the InvoiceForm component
  db,         \* the documents of the database: invoices and invoice items
  svc,        \* the invoiceService call in progress and its requests
  app,        \* the state of the App component: the page and the two ids
  sessions    \* the form sessions of other browsers creating invoices

vars ==
  <<invoice, now, engine, qrCalls, tlvCalls, sites, buffers, form, db, svc,
    app, sessions>>

qrVars == <<invoice, now, engine, qrCalls, tlvCalls>>

siteVars == <<sites, buffers>>

formVars == <<form>>

storeVars == <<db, svc>>

appVars == <<app, sessions>>

----------------------------------------------------------------------------
(* Bounds of the model.                                                    *)

\* How many calls of generateZatcaQrCode a behaviour records.
MaxCalls == 2

\* How many direct calls of encodeTLV a behaviour records.
MaxTlvCalls == 1

\* Code units of the long seller names and tax numbers: LongLen ASCII
\* characters are LongLen bytes, the largest the length byte describes when
\* LongLen = 255; OverLen ASCII characters are more than one byte can count.
LongLen == 255

OverLen == 300

\* Two-byte characters of the long Arabic name (twice as many bytes).
WideLen == 128

----------------------------------------------------------------------------
(* Strings.                                                                *)

Repeat(c, n) ==
  [i \in 1..n |-> c]

\* "Unknown Seller"
UnknownSeller ==
  <<85, 110, 107, 110, 111, 119, 110, 32, 83, 101, 108, 108, 101, 114>>

\* A plausible slip: one zero short of fifteen.
ZeroTaxNumberShort ==
  <<48, 48, 48, 48, 48, 48, 48, 48, 48, 48, 48, 48, 48, 48>>

\* "000000000000000"
ZeroTaxNumber ==
  <<48, 48, 48, 48, 48, 48, 48, 48, 48, 48, 48, 48, 48, 48, 48>>

\* "T00:00:00.000Z"
MidnightSuffix ==
  <<84, 48, 48, 58, 48, 48, 58, 48, 48, 46, 48, 48, 48, 90>>

\* What a string-typed property reads as when it is absent.
Undefined ==
  [defined |-> FALSE, s |-> <<>>]

Str(s) ==
  [defined |-> TRUE, s |-> s]

\* A plausible slip: no default is substituted.
OrElseNothing(a, b) ==
  a.s

\* JavaScript's a || b on an optional string and a string: a is falsy when
\* it is undefined or the empty string.
OrElse(a, b) ==
  IF a.defined /\ Len(a.s) > 0 THEN a.s ELSE b

----------------------------------------------------------------------------
(* TextEncoder.encode: UTF-16 code units to UTF-8 bytes.                   *)

IsHighSurrogate(u) ==
  u >= 55296 /\ u <= 56319

IsLowSurrogate(u) ==
  u >= 56320 /\ u <= 57343

Utf8OfCodePoint(cp) ==
  IF cp < 128 THEN <<cp>>
  ELSE IF cp < 2048 THEN <<192 + (cp \div 64), 128 + (cp % 64)>>
  ELSE IF cp < 65536 THEN
    <<224 + (cp \div 4096), 128 + ((cp \div 64) % 64), 128 + (cp % 64)>>
  ELSE
    <<240 + (cp \div 262144), 128 + ((cp \div 4096) % 64),
      128 + ((cp \div 64) % 64), 128 + (cp % 64)>>

\* The bytes the code unit at position i of s contributes: a surrogate pair
\* gives the four bytes of its code point at its first unit and nothing at
\* its second; a lone surrogate is encoded as U+FFFD.
Utf8OfUnit(s, i) ==
  IF IsLowSurrogate(s[i]) /\ i > 1 /\ IsHighSurrogate(s[i - 1]) THEN <<>>
  ELSE IF IsHighSurrogate(s[i]) /\ i < Len(s) /\ IsLowSurrogate(s[i + 1]) THEN
    Utf8OfCodePoint(65536 + (s[i] - 55296) * 1024 + (s[i + 1] - 56320))
  ELSE IF IsHighSurrogate(s[i]) \/ IsLowSurrogate(s[i]) THEN <<239, 191, 189>>
  ELSE Utf8OfCodePoint(s[i])

\* The concatenation of parts[lo], ..., parts[hi].
RECURSIVE Concat(_, _, _)
Concat(parts, lo, hi) ==
  IF lo > hi THEN <<>>
  ELSE IF lo = hi THEN parts[lo]
  ELSE LET mid == (lo + hi) \div 2
       IN  Concat(parts, lo, mid) \o Concat(parts, mid + 1, hi)

TextEncoderEncode(value) ==
  Concat([i \in 1..Len(value) |-> Utf8OfUnit(value, i)], 1, Len(value))

----------------------------------------------------------------------------
(* encodeTLV.                                                              *)

\* Storing a number into a Uint8Array element keeps it modulo 256.
ToUint8(n) ==
  n % 256

\* A plausible slip: the length taken in characters, not in bytes.
encodeTLVCharLength(tag, value) ==
  <<ToUint8(tag), ToUint8(Len(value))>> \o TextEncoderEncode(value)

\* A plausible slip: a terminator byte after the value.
encodeTLVTerminated(tag, value) ==
  LET valueBytes == TextEncoderEncode(value)
  IN  <<ToUint8(tag), ToUint8(Len(valueBytes))>> \o valueBytes \o <<0>>

encodeTLV(tag, value) ==
  LET valueBytes == TextEncoderEncode(value)
      length == Len(valueBytes)
  IN  <<ToUint8(tag), ToUint8(length)>> \o valueBytes

----------------------------------------------------------------------------
(* btoa(String.fromCharCode(...bytes)).                                    *)

\* String.fromCharCode keeps each argument modulo 65536 as one code unit.
StringFromCharCode(bytes) ==
  [i \in 1..Len(bytes) |-> bytes[i] % 65536]

\* The character of a 6-bit value in the base64 alphabet A-Z a-z 0-9 + /.
Base64Char(v) ==
  IF v < 26 THEN 65 + v
  ELSE IF v < 52 THEN 97 + (v - 26)
  ELSE IF v < 62 THEN 48 + (v - 52)
  ELSE IF v = 62 THEN 43
  ELSE 47

\* The base64 text of a binary string: four characters for every group of
\* three bytes, the last group padded with = (61).
Base64Encode(b) ==
  LET n == Len(b)
      At(i) == IF i <= n THEN b[i] ELSE 0
      Out(i) ==
        LET k == (i - 1) \div 4
            j == (i - 1) % 4
            b0 == At(3 * k + 1)
            b1 == At(3 * k + 2)
            b2 == At(3 * k + 3)
        IN  IF j = 0 THEN Base64Char(b0 \div 4)
            ELSE IF j = 1 THEN Base64Char((b0 % 4) * 16 + (b1 \div 16))
            ELSE IF j = 2 THEN
              IF 3 * k + 2 > n THEN 61
              ELSE Base64Char((b1 % 16) * 4 + (b2 \div 64))
            ELSE
              IF 3 * k + 3 > n THEN 61 ELSE Base64Char(b2 % 64)
  IN  [i \in 1..(4 * ((n + 2) \div 3)) |-> Out(i)]

\* A plausible slip: the padding is stripped from the text.
btoaUnpadded(s) ==
  [threw |-> \E i \in 1..Len(s) : s[i] > 255,
   s |-> SelectSeq(Base64Encode(s), LAMBDA c : c # 61)]

\* btoa throws InvalidCharacterError when a character is above 255.
btoa(s) ==
  IF \E i \in 1..Len(s) : s[i] > 255
  THEN [threw |-> TRUE, s |-> <<>>]
  ELSE [threw |-> FALSE, s |-> Base64Encode(s)]

----------------------------------------------------------------------------
(* Date: new Date(string), isNaN(date.getTime()), date.toISOString().      *)

NaNTime ==
  [nan |-> TRUE, day |-> 0, ms |-> 0]

TimeValue(day, ms) ==
  [nan |-> FALSE, day |-> day, ms |-> ms]

IsDigit(c) ==
  c >= 48 /\ c <= 57

AllDigits(s, from, to) ==
  \A i \in from..to : IsDigit(s[i])

RECURSIVE NumberAt(_, _, _)
NumberAt(s, from, to) ==
  IF to < from THEN 0
  ELSE NumberAt(s, from, to - 1) * 10 + (s[to] - 48)

IsLeapYear(y) ==
  (y % 4 = 0 /\ y % 100 # 0) \/ y % 400 = 0

DaysInMonth(y, m) ==
  IF m = 2 THEN (IF IsLeapYear(y) THEN 29 ELSE 28)
  ELSE IF m \in {4, 6, 9, 11} THEN 30
  ELSE 31

\* MakeDay: the day number of a calendar date; a day past the end of its
\* month counts on into the next month.
MakeDay(y, m, d) ==
  LET yy == IF m <= 2 THEN y - 1 ELSE y
      era == yy \div 400
      yoe == yy - era * 400
      mp == (m + 9) % 12
      doy == ((153 * mp + 2) \div 5) + d - 1
      doe == yoe * 365 + (yoe \div 4) - (yoe \div 100) + doy
  IN  era * 146097 + doe - 719468

\* MakeTime: the millisecond within the day.
MakeTime(h, mi, sec, milli) ==
  ((h * 60 + mi) * 60 + sec) * 1000 + milli

\* The date part of the ECMAScript date-time string format with a four-digit
\* year: YYYY, YYYY-MM or YYYY-MM-DD.
DatePartOk(d) ==
  /\ Len(d) \in {4, 7, 10}
  /\ AllDigits(d, 1, 4)
  /\ Len(d) >= 7 => (d[5] = 45 /\ AllDigits(d, 6, 7))
  /\ Len(d) = 10 => (d[8] = 45 /\ AllDigits(d, 9, 10))

\* The time part THH:mm:ss.sssZ.
TimePartOk(t) ==
  /\ Len(t) = 14
  /\ t[1] = 84 /\ t[4] = 58 /\ t[7] = 58 /\ t[10] = 46 /\ t[14] = 90
  /\ AllDigits(t, 2, 3) /\ AllDigits(t, 5, 6) /\ AllDigits(t, 8, 9)
  /\ AllDigits(t, 11, 13)

\* new Date(str) for a string that ends in a full time part. A string that
\* is not in the date-time string format gives an invalid Date. Engines
\* differ on a day of month that is at most 31 but past the end of its
\* month: a "rollover" engine counts on into the next month, a "strict"
\* engine gives an invalid Date.
DateParse(str, eng) ==
  LET n == Len(str)
      d == SubSeq(str, 1, n - 14)
      t == SubSeq(str, n - 13, n)
  IN  IF n < 18 \/ ~DatePartOk(d) \/ ~TimePartOk(t) THEN NaNTime
      ELSE
        LET year == NumberAt(d, 1, 4)
            month == IF Len(d) >= 7 THEN NumberAt(d, 6, 7) ELSE 1
            day == IF Len(d) = 10 THEN NumberAt(d, 9, 10) ELSE 1
            h == NumberAt(t, 2, 3)
            mi == NumberAt(t, 5, 6)
            sec == NumberAt(t, 8, 9)
            milli == NumberAt(t, 11, 13)
            timeOk == /\ mi <= 59 /\ sec <= 59
                      /\ (h <= 23 \/ (h = 24 /\ mi = 0 /\ sec = 0 /\ milli = 0))
            dayOk == /\ month >= 1 /\ month <= 12
                     /\ day >= 1 /\ day <= 31
                     /\ (eng = "strict" => day <= DaysInMonth(year, month))
        IN  IF ~timeOk \/ ~dayOk THEN NaNTime
            ELSE IF h = 24 THEN TimeValue(MakeDay(year, month, day) + 1, 0)
            ELSE TimeValue(MakeDay(year, month, day), MakeTime(h, mi, sec, milli))

\* The calendar date of a day number: <<year, month, day>>.
CivilFromDays(z) ==
  LET z2 == z + 719468
      era == z2 \div 146097
      doe == z2 - era * 146097
      yoe == (doe - (doe \div 1460) + (doe \div 36524) - (doe \div 146096)) \div 365
      y == yoe + era * 400
      doy == doe - (365 * yoe + (yoe \div 4) - (yoe \div 100))
      mp == (5 * doy + 2) \div 153
      d == doy - ((153 * mp + 2) \div 5) + 1
      m == IF mp < 10 THEN mp + 3 ELSE mp - 9
  IN  <<IF m <= 2 THEN y + 1 ELSE y, m, d>>

Pow10(k) ==
  IF k = 0 THEN 1 ELSE IF k = 1 THEN 10 ELSE IF k = 2 THEN 100
  ELSE IF k = 3 THEN 1000 ELSE IF k = 4 THEN 10000 ELSE 100000

\* n in decimal, at least w digits (w <= 6), zero-padded on the left.
Pad(n, w) ==
  [i \in 1..w |-> 48 + ((n \div Pow10(w - i)) % 10)]

\* Date.prototype.toISOString: YYYY-MM-DDTHH:mm:ss.sssZ, the year with a
\* sign and six digits outside 0..9999; RangeError on an invalid Date.
toISOString(tv) ==
  IF tv.nan THEN [threw |-> TRUE, s |-> <<>>]
  ELSE
    LET c == CivilFromDays(tv.day)
        year == IF c[1] >= 0 /\ c[1] <= 9999 THEN Pad(c[1], 4)
                ELSE IF c[1] < 0 THEN <<45>> \o Pad(0 - c[1], 6)
                ELSE <<43>> \o Pad(c[1], 6)
        h == tv.ms \div 3600000
        mi == (tv.ms \div 60000) % 60
        sec == (tv.ms \div 1000) % 60
        milli == tv.ms % 1000
    IN  [threw |-> FALSE,
         s |-> year \o <<45>> \o Pad(c[2], 2) \o <<45>> \o Pad(c[3], 2)
               \o <<84>> \o Pad(h, 2) \o <<58>> \o Pad(mi, 2) \o <<58>>
               \o Pad(sec, 2) \o <<46>> \o Pad(milli, 3) \o <<90>>]

----------------------------------------------------------------------------
(* Number: x || 0 and Number.prototype.toFixed.                            *)
(*                                                                         *)
(* A Number is [kind, neg, milli, err, digits, exp]:                       *)
(*   kind "undefined": the property is absent;                             *)
(*   kind "nan": NaN;  kind "inf": Infinity, negative when neg;            *)
(*   kind "fin": a double of magnitude below 10^21; its exact magnitude    *)
(*     is (milli + err * e) / 1000 for an e with 0 < e < 1/2: err is the   *)
(*     side on which the double lies of the decimal milli / 1000 it was    *)
(*     written as (0: it is that decimal exactly);                         *)
(*   kind "big": a double of magnitude at least 10^21 whose shortest       *)
(*     decimal form has the digits `digits` and the decimal exponent exp.  *)

Fin(neg, milli, err) ==
  [kind |-> "fin", neg |-> neg, milli |-> milli, err |-> err,
   digits |-> <<>>, exp |-> 0]

Big(neg, digits, exp) ==
  [kind |-> "big", neg |-> neg, milli |-> 0, err |-> 0,
   digits |-> digits, exp |-> exp]

Inf(neg) ==
  [kind |-> "inf", neg |-> neg, milli |-> 0, err |-> 0, digits |-> <<>>, exp |-> 0]

NaN ==
  [kind |-> "nan", neg |-> FALSE, milli |-> 0, err |-> 0, digits |-> <<>>, exp |-> 0]

NumUndefined ==
  [kind |-> "undefined", neg |-> FALSE, milli |-> 0, err |-> 0,
   digits |-> <<>>, exp |-> 0]

IsZero(x) ==
  x.kind = "fin" /\ x.milli = 0 /\ x.err = 0

\* A plausible slip: the amount is used without the || 0.
OrZeroForgotten(x) ==
  x

\* A plausible slip: Number(x) in place of x || 0, which makes an absent
\* amount NaN.
OrZeroViaNumber(x) ==
  IF x.kind = "undefined" THEN NaN ELSE x

\* x || 0: undefined, NaN, 0 and -0 are falsy.
OrZero(x) ==
  IF x.kind \in {"undefined", "nan"} \/ IsZero(x) THEN Fin(FALSE, 0, 0) ELSE x

RECURSIVE Digits(_)
Digits(n) ==
  IF n < 10 THEN <<48 + n>> ELSE Digits(n \div 10) \o <<48 + (n % 10)>>

\* "-" for a negative number.
SignOf(x) ==
  IF x.neg THEN <<45>> ELSE <<>>

\* Number::toString of a double of magnitude at least 10^21: d[.ddd]e+NN.
BigToString(x) ==
  SignOf(x) \o <<48 + x.digits[1]>>
    \o (IF Len(x.digits) > 1
        THEN <<46>> \o [i \in 1..(Len(x.digits) - 1) |-> 48 + x.digits[i + 1]]
        ELSE <<>>)
    \o <<101, 43>> \o Digits(x.exp)

\* A plausible slip: the digits past the second are cut off, not rounded.
toFixedTruncating(x, fractionDigits) ==
  IF x.kind # "fin" THEN [threw |-> x.kind = "undefined", s |-> <<>>]
  ELSE
    LET n == x.milli \div Pow10(3 - fractionDigits)
    IN  [threw |-> FALSE,
         s |-> SignOf(x) \o Digits(n \div Pow10(fractionDigits)) \o <<46>>
               \o Pad(n % Pow10(fractionDigits), fractionDigits)]

\* x.toFixed(fractionDigits) for fractionDigits in 0..3. TypeError when x is
\* undefined. Of the integers n nearest to x * 10^fractionDigits the larger
\* is taken; the sign is put in front whenever x < 0.
toFixed(x, fractionDigits) ==
  IF x.kind = "undefined" THEN [threw |-> TRUE, s |-> <<>>]
  ELSE IF x.kind = "nan" THEN [threw |-> FALSE, s |-> <<78, 97, 78>>]
  ELSE IF x.kind = "inf" THEN
    [threw |-> FALSE,
     s |-> SignOf(x) \o <<73, 110, 102, 105, 110, 105, 116, 121>>]
  ELSE IF x.kind = "big" THEN [threw |-> FALSE, s |-> BigToString(x)]
  ELSE
    LET div == Pow10(3 - fractionDigits)
        q == x.milli \div div
        r == x.milli % div
        up == 2 * r > div \/ (2 * r = div /\ x.err >= 0)
        n == IF up THEN q + 1 ELSE q
        sign == IF x.neg /\ ~IsZero(x) THEN <<45>> ELSE <<>>
    IN  [threw |-> FALSE,
         s |-> sign \o Digits(n \div Pow10(fractionDigits))
               \o (IF fractionDigits > 0
                   THEN <<46>> \o Pad(n % Pow10(fractionDigits), fractionDigits)
                   ELSE <<>>)]

----------------------------------------------------------------------------
(* generateZatcaQrCode.                                                    *)

\* target.set(source, offset) on a Uint8Array.
SetAt(target, source, offset) ==
  [i \in 1..Len(target) |->
     IF i > offset /\ i <= offset + Len(source) THEN source[i - offset]
     ELSE target[i]]

\* invoice.company?.name and invoice.company?.taxNumber.
CompanyName(inv) ==
  IF inv.company.defined THEN inv.company.name ELSE Undefined

CompanyTaxNumber(inv) ==
  IF inv.company.defined THEN inv.company.taxNumber ELSE Undefined

\* A plausible slip: the parsed date is rendered without the isNaN check
\* and outside the try block, so that an invalid Date throws.
InvoiceDateTimeUnguarded(inv, clock, eng) ==
  IF inv.date.defined /\ Len(inv.date.s) > 0
  THEN toISOString(DateParse(inv.date.s \o MidnightSuffix, eng))
  ELSE toISOString(clock)

\* Lines 42-52: the current instant, replaced by the invoice's date at
\* midnight UTC when invoice.date is a non-empty string that parses. A
\* RangeError of toISOString inside the try block is caught.
InvoiceDateTime(inv, clock, eng) ==
  LET current == toISOString(clock)
      date == DateParse(inv.date.s \o MidnightSuffix, eng)
      iso == toISOString(date)
  IN  IF current.threw THEN current
      ELSE IF inv.date.defined /\ Len(inv.date.s) > 0 /\ ~date.nan /\ ~iso.threw
      THEN iso
      ELSE current

\* The five resolved field values, in tag order; each is [threw, s].
ResolvedFields(inv, clock, eng) ==
  <<[threw |-> FALSE, s |-> OrElse(CompanyName(inv), UnknownSeller)],
    [threw |-> FALSE, s |-> OrElse(CompanyTaxNumber(inv), ZeroTaxNumber)],
    InvoiceDateTime(inv, clock, eng),
    toFixed(OrZero(inv.taxAmount), 2),
    toFixed(OrZero(inv.total), 2)>>

\* A plausible slip: the VAT amount and the total change places.
CombineTlvSwapped(f) ==
  encodeTLV(1, f[1].s) \o encodeTLV(2, f[2].s) \o encodeTLV(3, f[3].s)
    \o encodeTLV(4, f[5].s) \o encodeTLV(5, f[4].s)

\* Lines 60-86: the five records laid one after the other.
CombineTlv(f) ==
  LET tlv1 == encodeTLV(1, f[1].s)
      tlv2 == encodeTLV(2, f[2].s)
      tlv3 == encodeTLV(3, f[3].s)
      tlv4 == encodeTLV(4, f[4].s)
      tlv5 == encodeTLV(5, f[5].s)
      totalLength == Len(tlv1) + Len(tlv2) + Len(tlv3) + Len(tlv4) + Len(tlv5)
      offset1 == 0
      offset2 == offset1 + Len(tlv1)
      offset3 == offset2 + Len(tlv2)
      offset4 == offset3 + Len(tlv3)
      offset5 == offset4 + Len(tlv4)
  IN  SetAt(SetAt(SetAt(SetAt(SetAt(Repeat(0, totalLength),
        tlv1, offset1), tlv2, offset2), tlv3, offset3), tlv4, offset4),
        tlv5, offset5)

\* The call's outcome: [threw, value], value the returned string.
generateZatcaQrCode(inv, clock, eng) ==
  LET f == ResolvedFields(inv, clock, eng)
  IN  IF \E k \in 1..5 : f[k].threw THEN [threw |-> TRUE, value |-> <<>>]
      ELSE
        LET base64String == btoa(StringFromCharCode(CombineTlv(f)))
        IN  [threw |-> base64String.threw, value |-> base64String.s]

----------------------------------------------------------------------------
(* The inputs the model draws from.                                        *)

\* "Test Co"
TestCo ==
  <<84, 101, 115, 116, 32, 67, 111>>

\* The Arabic word for "establishment": five two-byte characters.
ArabicName ==
  <<1605, 1572, 1587, 1587, 1577>>

\* "A", U+1F600 as a surrogate pair (four bytes), the euro sign (three).
MixedName ==
  <<65, 55357, 56832, 8364>>

\* "123456789012345"
TaxNumber15 ==
  <<49, 50, 51, 52, 53, 54, 55, 56, 57, 48, 49, 50, 51, 52, 53>>

SellerNames ==
  {Undefined, Str(<<>>), Str(TestCo), Str(ArabicName), Str(MixedName),
   Str(Repeat(97, LongLen)), Str(Repeat(97, LongLen + 1)),
   Str(Repeat(1605, WideLen)), Str(Repeat(97, OverLen))}

TaxNumbers ==
  {Undefined, Str(<<>>), Str(TaxNumber15), Str(Repeat(57, LongLen)),
   Str(Repeat(57, OverLen))}

NoCompany ==
  [defined |-> FALSE, name |-> Undefined, taxNumber |-> Undefined]

Company(name, taxNumber) ==
  [defined |-> TRUE, name |-> name, taxNumber |-> taxNumber]

\* Every seller name with the usual tax number, every tax number with the
\* usual name, and the companies with neither or with both oversized.
Companies ==
  {NoCompany}
    \cup {Company(n, Str(TaxNumber15)) : n \in SellerNames}
    \cup {Company(Str(TestCo), t) : t \in TaxNumbers}
    \cup {Company(Undefined, Undefined), Company(Str(<<>>), Str(<<>>)),
          Company(Str(ArabicName), Undefined),
          Company(Str(Repeat(97, OverLen)), Str(Repeat(57, OverLen)))}

\* "2024-01-15"
Date20240115 ==
  <<50, 48, 50, 52, 45, 48, 49, 45, 49, 53>>

\* "2024-01-15T10:30:00Z"
Stamp20240115 ==
  <<50, 48, 50, 52, 45, 48, 49, 45, 49, 53, 84, 49, 48, 58, 51, 48, 58, 48,
    48, 90>>

\* "2024-01-15T00:00:00.000+00:00", a date as the document store returns it
StoredStamp20240115 ==
  <<50, 48, 50, 52, 45, 48, 49, 45, 49, 53, 84, 48, 48, 58, 48, 48, 58, 48,
    48, 46, 48, 48, 48, 43, 48, 48, 58, 48, 48>>

InvoiceDates ==
  {Undefined, Str(<<>>), Str(Date20240115), Str(Stamp20240115),
   Str(StoredStamp20240115),
   \* "2024-02-29", "2023-02-29", "2024-13-01", "2024-00-10"
   Str(<<50, 48, 50, 52, 45, 48, 50, 45, 50, 57>>),
   Str(<<50, 48, 50, 51, 45, 48, 50, 45, 50, 57>>),
   Str(<<50, 48, 50, 52, 45, 49, 51, 45, 48, 49>>),
   Str(<<50, 48, 50, 52, 45, 48, 48, 45, 49, 48>>),
   \* "1999-12-31", "2024", "2024-01", "15/01/2024"
   Str(<<49, 57, 57, 57, 45, 49, 50, 45, 51, 49>>),
   Str(<<50, 48, 50, 52>>),
   Str(<<50, 48, 50, 52, 45, 48, 49>>),
   Str(<<49, 53, 47, 48, 49, 47, 50, 48, 50, 52>>)}

\* 0, 0.1, 1234.5, 1000000.456, 15, 115, 0.125, 1.005, 8.345, 0.004, 99.995,
\* -0, -0.001, -2.5, 1e21, 1.15e21, Infinity, NaN and an absent amount.
Amounts ==
  {Fin(FALSE, 0, 0), Fin(FALSE, 100, 1), Fin(FALSE, 1234500, 0),
   Fin(FALSE, 1000000456, 1), Fin(FALSE, 15000, 0), Fin(FALSE, 115000, 0),
   Fin(FALSE, 125, 0), Fin(FALSE, 1005, -1), Fin(FALSE, 8345, 1),
   Fin(FALSE, 4, 1), Fin(FALSE, 99995, 1),
   Fin(TRUE, 0, 0), Fin(TRUE, 1, 1), Fin(TRUE, 2500, 0),
   Big(FALSE, <<1>>, 21), Big(FALSE, <<1, 1, 5>>, 21), Inf(FALSE),
   NaN, NumUndefined}

\* 2024-02-29T23:59:59.999Z, 2026-11-03T04:51:07.123Z, 2030-01-01T00:00:00.000Z
Clocks ==
  {TimeValue(19782, 86399999), TimeValue(20760, 17467123), TimeValue(21915, 0)}

Later(t, u) ==
  u.day > t.day \/ (u.day = t.day /\ u.ms > t.ms)

\* The two policies on a day of month past the end of its month.
Engines ==
  {"strict", "rollover"}

Invoice(company, date, taxAmount, total) ==
  [company |-> company, date |-> date, taxAmount |-> taxAmount, total |-> total]

\* Seller "Test Co", tax number 123456789012345, tax 15.00, total 115.00.
BaseInvoice ==
  Invoice(Company(Str(TestCo), Str(TaxNumber15)), Str(Date20240115),
          Fin(FALSE, 15000, 0), Fin(FALSE, 115000, 0))

\* The invoices: each part of the base invoice varied over its inputs, and
\* the invoice with nothing in it.
Invoices ==
  {[BaseInvoice EXCEPT !.company = c] : c \in Companies}
    \cup {[BaseInvoice EXCEPT !.date = d] : d \in InvoiceDates}
    \cup {[BaseInvoice EXCEPT !.taxAmount = a] : a \in Amounts}
    \cup {[BaseInvoice EXCEPT !.total = a] : a \in Amounts}
    \cup {Invoice(NoCompany, Undefined, NumUndefined, NumUndefined)}
    \cup {Invoice(Company(Str(Repeat(97, LongLen + 1)), Undefined),
                  d, Big(FALSE, <<1>>, 21), Inf(TRUE)) :
            d \in {Undefined, Str(Stamp20240115)}}

\* The tags and values encodeTLV is applied to.
Tags ==
  {0, 1, 2, 3, 4, 5, 255}

TlvValues ==
  {<<>>, <<65>>, TestCo, ArabicName, MixedName, TaxNumber15, Date20240115,
   UnknownSeller, ZeroTaxNumber, <<8364>>, <<55357, 56832>>,
   Repeat(97, LongLen), Repeat(97, LongLen + 1), Repeat(1605, WideLen),
   Repeat(8364, WideLen), Repeat(97, OverLen)}

----------------------------------------------------------------------------
(* generateZatcaQrCode step by step, called from several call sites. Each  *)
(* call keeps what it computes in locals of its own.                       *)

\* How many call sites run generateZatcaQrCode side by side.
NumSites == 2

Sites ==
  1..NumSites

\* A call that holds nothing yet.
IdleSite ==
  [pc |-> "idle", at |-> NaNTime, f |-> <<>>,
   result |-> [threw |-> FALSE, value |-> <<>>]]

SitesIdle ==
  /\ sites = [c \in Sites |-> IdleSite]
  /\ buffers = [c \in Sites |-> <<>>]

\* A plausible slip: combinedTlvData is one buffer of the module, not a
\* local of the call.
BufferShared(c) ==
  1

\* Line 70: const combinedTlvData = new Uint8Array(totalLength), a buffer
\* of the call's own.
BufferOf(c) ==
  c

\* Lines 33-58: the call reads the invoice and the clock and resolves the
\* five values. A value that cannot be computed ends the call with the
\* error.
SiteResolve(c) ==
  /\ sites[c].pc = "idle"
  /\ LET f == ResolvedFields(invoice, now, engine)
         threw == \E k \in 1..5 : f[k].threw
     IN  sites' = [sites EXCEPT ![c] =
           [pc |-> IF threw THEN "done" ELSE "resolved",
            at |-> now, f |-> f,
            result |-> [threw |-> threw, value |-> <<>>]]]
  /\ UNCHANGED <<qrVars, buffers, formVars, storeVars, appVars>>

\* Lines 60-86: the five records are encoded and laid into the buffer.
SiteCombine(c) ==
  /\ sites[c].pc = "resolved"
  /\ buffers' = [buffers EXCEPT ![BufferOf(c)] = CombineTlv(sites[c].f)]
  /\ sites' = [sites EXCEPT ![c].pc = "combined"]
  /\ UNCHANGED <<qrVars, formVars, storeVars, appVars>>

\* Lines 88-91: the buffer is turned into base64 text and returned.
SiteReturn(c) ==
  /\ sites[c].pc = "combined"
  /\ LET base64String == btoa(StringFromCharCode(buffers[BufferOf(c)]))
     IN  sites' = [sites EXCEPT ![c].pc = "done",
                                ![c].result = [threw |-> base64String.threw,
                                               value |-> base64String.s]]
  /\ UNCHANGED <<qrVars, buffers, formVars, storeVars, appVars>>

\* The invoices the call sites are given.
SiteInvoices ==
  {BaseInvoice,
   [BaseInvoice EXCEPT !.date = Undefined],
   [BaseInvoice EXCEPT !.date = Str(Stamp20240115)],
   [BaseInvoice EXCEPT !.company = Company(Str(ArabicName), Str(<<>>))],
   Invoice(NoCompany, Undefined, NumUndefined, NumUndefined)}

----------------------------------------------------------------------------
(* The invoice form (InvoiceForm). Amounts are whole numbers of hundredths *)
(* of the currency unit; the prices drawn are multiples of 20 hundredths,  *)
(* so that 15% of every subtotal is a whole number of hundredths too. The  *)
(* rounding of binary floating point is not part of this arithmetic.       *)

\* How many items an invoice of the form holds at most.
MaxItems == 2

\* String.prototype.trim removes white space and line terminators from
\* both ends.
IsWhiteSpace(c) ==
  c \in {9, 10, 11, 12, 13, 32, 160, 5760, 8232, 8233, 8239, 8287, 12288, 65279}
    \/ (c >= 8192 /\ c <= 8202)

\* A plausible slip: only the empty string counts, a string of spaces
\* does not.
IsEmptyOnly(s) ==
  Len(s) = 0

\* s.trim() === ''
IsBlank(s) ==
  \A i \in 1..Len(s) : IsWhiteSpace(s[i])

\* No invoiceId prop: the form creates a new invoice.
NoInvoiceId ==
  0

\* saveMessage === null
NoMessage ==
  [type |-> "none", text |-> "none"]

\* A customer: the name and the tax number, which the invoice document
\* stores as customerName and customerId.
NoCustomer ==
  [name |-> <<>>, taxNumber |-> <<>>]

\* useState<Invoice>({...}): the customer, the amounts and the items of a
\* fresh invoice.
InitialInvoice ==
  [number |-> <<>>, customer |-> NoCustomer, items |-> <<>>, subtotal |-> 0,
   taxAmount |-> 0, total |-> 0, paid |-> 0, discount |-> 0, remaining |-> 0]

\* useState for newItem, also what addItem resets it to.
InitialNewItem ==
  [description |-> <<>>, quantity |-> 1, price |-> 0]

\* The component's state when it is mounted; timer is the pending
\* setTimeout of a save, pending the effects whose await is not over, and
\* customers the list loadData has fetched.
InitialForm ==
  [invoiceId |-> NoInvoiceId, invoice |-> InitialInvoice,
   newItem |-> InitialNewItem, isSaving |-> FALSE,
   saveMessage |-> NoMessage, timer |-> FALSE, mounted |-> TRUE,
   pending |-> {}, customers |-> <<>>]

FormIdle ==
  form = InitialForm

\* updatedItems.reduce((sum, item) => sum + (item.quantity * item.price), 0)
RECURSIVE SumOfItems(_)
SumOfItems(items) ==
  IF Len(items) = 0 THEN 0
  ELSE SumOfItems(SubSeq(items, 1, Len(items) - 1))
         + items[Len(items)].quantity * items[Len(items)].price

\* A plausible slip: the tax is taken on the last item only.
TotalsOfLastItem(items, paid, discount, balanceSign) ==
  LET subtotal == IF Len(items) = 0 THEN 0
                  ELSE items[Len(items)].quantity * items[Len(items)].price
      taxAmount == (subtotal * 15) \div 100
      total == subtotal + taxAmount
  IN  [subtotal |-> subtotal, taxAmount |-> taxAmount, total |-> total,
       remaining |-> total - paid + balanceSign * discount]

\* The totals addItem and removeItem compute from the updated items:
\* subtotal, taxAmount = subtotal * 0.15, total = subtotal + taxAmount and
\* remaining = total - paid -/+ discount (balanceSign is -1 or 1).
TotalsOf(items, paid, discount, balanceSign) ==
  LET subtotal == SumOfItems(items)
      taxAmount == (subtotal * 15) \div 100
      total == subtotal + taxAmount
  IN  [subtotal |-> subtotal, taxAmount |-> taxAmount, total |-> total,
       remaining |-> total - paid + balanceSign * discount]

\* What the user can type into the form. "Widget", two spaces, nothing.
Descriptions ==
  {<<>>, <<32, 32>>, <<87, 105, 100, 103, 101, 116>>}

\* The quantity input takes any number; parseFloat(...) || 0.
Quantities ==
  {-1, 2}

\* 0 and 100.00
Prices ==
  {0, 10000}

\* 0 and 50.00 paid; 0 and 10.00 discount
PaidAmounts ==
  {0, 5000}

DiscountAmounts ==
  {0, 1000}

\* The ids Math.random().toString(36).substr(2, 9) gives the items; ids are
\* numbers here, those of the form's own items apart from the database's.
ItemIds ==
  {1001, 1002}

\* onChange of the three inputs of the new item.
SetNewItemDescription(d) ==
  /\ form' = [form EXCEPT !.newItem.description = d]
  /\ UNCHANGED <<qrVars, siteVars, appVars, storeVars>>

SetNewItemQuantity(q) ==
  /\ form' = [form EXCEPT !.newItem.quantity = q]
  /\ UNCHANGED <<qrVars, siteVars, appVars, storeVars>>

SetNewItemPrice(p) ==
  /\ form' = [form EXCEPT !.newItem.price = p]
  /\ UNCHANGED <<qrVars, siteVars, appVars, storeVars>>

\* addItem: nothing happens for a blank description; otherwise the item is
\* appended, the totals are recomputed and the new item is reset.
addItem ==
  /\ ~IsBlank(form.newItem.description)
  /\ Len(form.invoice.items) < MaxItems
  /\ \E id \in ItemIds :
       LET item == [id |-> id,
                    description |-> form.newItem.description,
                    quantity |-> form.newItem.quantity,
                    price |-> form.newItem.price,
                    taxRate |-> 15,
                    total |-> form.newItem.quantity * form.newItem.price]
           updatedItems == Append(form.invoice.items, item)
           t == TotalsOf(updatedItems, form.invoice.paid,
                         form.invoice.discount, -1)
       IN  form' = [form EXCEPT !.invoice.items = updatedItems,
                                !.invoice.subtotal = t.subtotal,
                                !.invoice.taxAmount = t.taxAmount,
                                !.invoice.total = t.total,
                                !.invoice.remaining = t.remaining,
                                !.newItem = InitialNewItem]
  /\ UNCHANGED <<qrVars, siteVars, appVars, storeVars>>

\* removeItem(id), id the id of an item shown: the items with that id are
\* filtered out and the totals recomputed, the discount added.
removeItem(id) ==
  /\ \E i \in 1..Len(form.invoice.items) : form.invoice.items[i].id = id
  /\ LET updatedItems == SelectSeq(form.invoice.items,
                                   LAMBDA item : item.id # id)
         t == TotalsOf(updatedItems, form.invoice.paid,
                       form.invoice.discount, 1)
     IN  form' = [form EXCEPT !.invoice.items = updatedItems,
                              !.invoice.subtotal = t.subtotal,
                              !.invoice.taxAmount = t.taxAmount,
                              !.invoice.total = t.total,
                              !.invoice.remaining = t.remaining]
  /\ UNCHANGED <<qrVars, siteVars, appVars, storeVars>>

\* updatePaidAmount(paid): remaining = total - paid + discount.
updatePaidAmount(paid) ==
  /\ form' = [form EXCEPT
       !.invoice.paid = paid,
       !.invoice.remaining = form.invoice.total - paid + form.invoice.discount]
  /\ UNCHANGED <<qrVars, siteVars, appVars, storeVars>>

\* updateDiscountAmount(discount): remaining = total - paid - discount.
updateDiscountAmount(discount) ==
  /\ form' = [form EXCEPT
       !.invoice.discount = discount,
       !.invoice.remaining = form.invoice.total - form.invoice.paid - discount]
  /\ UNCHANGED <<qrVars, siteVars, appVars, storeVars>>

----------------------------------------------------------------------------
(* The document database and invoiceService. A call of the service is a    *)
(* sequence of requests to the database; the requests of a Promise.all are *)
(* all sent at once, are answered in any order, and any request may fail.  *)

\* How many documents listDocuments returns at most when the query names
\* no limit. The database's default is 25; the model scales it down.
ListLimit == 1

\* How many calls of the service a behaviour makes.
MaxSvcCalls == 2

\* The fields createInvoice and updateInvoice write to the invoice document.
InvoiceData(inv) ==
  [invoiceNumber |-> inv.number, customerId |-> inv.customer.taxNumber,
   customerName |-> inv.customer.name, subtotal |-> inv.subtotal,
   taxAmount |-> inv.taxAmount, total |-> inv.total, paid |-> inv.paid,
   discount |-> inv.discount, remaining |-> inv.remaining,
   status |-> "finalized"]

\* The fields of the document of the item at 0-based position index.
ItemData(invoiceId, item, index) ==
  [invoiceId |-> invoiceId, description |-> item.description,
   quantity |-> item.quantity, price |-> item.price,
   taxRate |-> item.taxRate, total |-> item.total, orderIndex |-> index]

NoData ==
  [invoiceId |-> 0, description |-> <<>>, quantity |-> 0, price |-> 0,
   taxRate |-> 0, total |-> 0, orderIndex |-> 0]

\* A stored document: its $id and its fields. nextId of the database is
\* the next id ID.unique() gives out.
Doc(id, data) ==
  [id |-> id, data |-> data]

\* customers is the customers collection as listCustomers returns it: the
\* active customers by ascending name.
EmptyDb ==
  [invoices |-> {}, items |-> {}, nextId |-> 1, customers |-> <<>>]

\* before is the database as it was when the call in progress began; it
\* is forgotten when the caller has the call's outcome.
IdleService ==
  [n |-> 0, op |-> "none", pc |-> "idle", invoiceId |-> 0,
   invoice |-> InitialInvoice, outcome |-> "none", requests |-> {},
   before |-> EmptyDb]

StoreIdle ==
  /\ db = EmptyDb
  /\ svc = IdleService

\* The documents of a finite set by ascending orderIndex:
\* Query.orderAsc('orderIndex').
RECURSIVE ByOrderIndex(_)
ByOrderIndex(docs) ==
  IF docs = {} THEN <<>>
  ELSE LET first == CHOOSE d \in docs : \A e \in docs :
                      \/ d.data.orderIndex < e.data.orderIndex
                      \/ (d.data.orderIndex = e.data.orderIndex /\ d.id <= e.id)
       IN  <<first>> \o ByOrderIndex(docs \ {first})

ItemsOf(invoiceId) ==
  {d \in db.items : d.data.invoiceId = invoiceId}

FirstOf(docs, limit) ==
  SubSeq(docs, 1, IF Len(docs) < limit THEN Len(docs) ELSE limit)

\* listDocuments(invoiceItems, [Query.equal('invoiceId', invoiceId)]): the
\* first page of the invoice's item documents, as a set. The query names no
\* order, and the documents arrived at the database in any order: any
\* ListLimit of them may be the page.
ListItemDocuments(invoiceId) ==
  LET all == ItemsOf(invoiceId)
      size == IF Cardinality(all) < ListLimit THEN Cardinality(all)
              ELSE ListLimit
  IN  {page \in SUBSET all : Cardinality(page) = size}

\* The requests of the call in progress that are not yet answered.
Awaited ==
  {r \in svc.requests : r.call = svc.n}

\* A call of the service begins.
Begin(op, invoiceId, inv) ==
  [svc EXCEPT !.n = svc.n + 1, !.op = op, !.pc = "start",
              !.invoiceId = invoiceId, !.invoice = inv, !.outcome = "none",
              !.before = db]

\* catch (error) { throw new Error(...) }
Throw ==
  [svc EXCEPT !.pc = "done", !.outcome = "threw"]

\* The createDocument requests of invoice.items.map(...), one per item, each
\* with the id ID.unique() gives it: the ids from firstId on.
CreateItemRequests(invoiceId, firstId) ==
  {[call |-> svc.n, kind |-> "createDocument", id |-> firstId + i - 1,
    data |-> ItemData(invoiceId, svc.invoice.items[i], i - 1)] :
     i \in 1..Len(svc.invoice.items)}

\* createInvoice, lines 38-61: the invoice document is created and the
\* createDocument requests of its items are sent.
svcCreateInvoiceDocument(ok) ==
  /\ svc.op = "createInvoice" /\ svc.pc = "start"
  /\ IF ok
     THEN /\ db' = [db EXCEPT
                !.invoices = @ \cup {Doc(db.nextId, InvoiceData(svc.invoice))},
                !.nextId = @ + 1 + Len(svc.invoice.items)]
          /\ svc' = [svc EXCEPT
                !.invoiceId = db.nextId, !.pc = "creating",
                !.requests = @ \cup
                  CreateItemRequests(db.nextId, db.nextId + 1)]
     ELSE /\ svc' = Throw
          /\ UNCHANGED db
  /\ UNCHANGED <<qrVars, siteVars, appVars, formVars>>

\* updateInvoice, lines 162-185: the invoice document is overwritten. The
\* request fails when there is no such document.
svcUpdateInvoiceDocument(ok) ==
  /\ svc.op = "updateInvoice" /\ svc.pc = "start"
  /\ IF ok /\ \E d \in db.invoices : d.id = svc.invoiceId
     THEN /\ db' = [db EXCEPT !.invoices =
                {IF d.id = svc.invoiceId
                 THEN Doc(d.id, InvoiceData(svc.invoice)) ELSE d : d \in @}]
          /\ svc' = [svc EXCEPT !.pc = "list"]
     ELSE /\ svc' = Throw
          /\ UNCHANGED db
  /\ UNCHANGED <<qrVars, siteVars, appVars, formVars>>

\* updateInvoice, lines 187-202, and deleteInvoice, lines 239-254: the
\* invoice's items are listed and a deleteDocument request is sent for each
\* document of the listing.
svcListItems(ok) ==
  /\ \/ svc.op = "updateInvoice" /\ svc.pc = "list"
     \/ svc.op = "deleteInvoice" /\ svc.pc = "start"
  /\ IF ok
     THEN \E documents \in ListItemDocuments(svc.invoiceId) :
            svc' = [svc EXCEPT
              !.pc = "deleting",
              !.requests = @ \cup
                {[call |-> svc.n, kind |-> "deleteDocument",
                  id |-> d.id, data |-> NoData] : d \in documents}]
     ELSE svc' = Throw
  /\ UNCHANGED <<db, qrVars, siteVars, appVars, formVars>>

\* The database answers one request of a Promise.all. A deleteDocument
\* fails when the document is gone. The first failure among the requests
\* the call awaits rejects the Promise.all and the call throws; the other
\* requests stay on their way.
svcAnswer(r, ok) ==
  /\ r \in svc.requests
  /\ LET done == IF r.kind = "deleteDocument"
                 THEN ok /\ \E d \in db.items : d.id = r.id
                 ELSE ok
         awaited == r.call = svc.n /\ svc.pc \in {"deleting", "creating"}
         rest == svc.requests \ {r}
     IN  /\ db' = IF ~done THEN db
                  ELSE IF r.kind = "deleteDocument"
                  THEN [db EXCEPT !.items = {d \in @ : d.id # r.id}]
                  ELSE [db EXCEPT !.items = @ \cup {Doc(r.id, r.data)}]
         /\ svc' = IF ~done /\ awaited
                   THEN [Throw EXCEPT !.requests = rest]
                   ELSE [svc EXCEPT !.requests = rest]
  /\ UNCHANGED <<qrVars, siteVars, appVars, formVars>>

\* The Promise.all of the deletions is fulfilled: updateInvoice sends the
\* createDocument requests of the new items (lines 204-221), deleteInvoice
\* goes on to the invoice document.
svcAfterDeletes ==
  /\ svc.pc = "deleting" /\ Awaited = {}
  /\ IF svc.op = "updateInvoice"
     THEN /\ svc' = [svc EXCEPT
                !.pc = "creating",
                !.requests = @ \cup
                  CreateItemRequests(svc.invoiceId, db.nextId)]
          /\ db' = [db EXCEPT !.nextId = @ + Len(svc.invoice.items)]
     ELSE /\ svc' = [svc EXCEPT !.pc = "deleteDocument"]
          /\ UNCHANGED db
  /\ UNCHANGED <<qrVars, siteVars, appVars, formVars>>

\* deleteInvoice, lines 256-261: the invoice document is deleted.
svcDeleteInvoiceDocument(ok) ==
  /\ svc.op = "deleteInvoice" /\ svc.pc = "deleteDocument"
  /\ IF ok /\ \E d \in db.invoices : d.id = svc.invoiceId
     THEN /\ db' = [db EXCEPT !.invoices = {d \in @ : d.id # svc.invoiceId}]
          /\ svc' = [svc EXCEPT !.pc = "done", !.outcome = "returned"]
     ELSE /\ svc' = Throw
          /\ UNCHANGED db
  /\ UNCHANGED <<qrVars, siteVars, appVars, formVars>>

\* The Promise.all of the creations is fulfilled: createInvoice and
\* updateInvoice return.
svcReturn ==
  /\ svc.pc = "creating" /\ Awaited = {}
  /\ svc' = [svc EXCEPT !.pc = "done", !.outcome = "returned"]
  /\ UNCHANGED <<db, qrVars, siteVars, appVars, formVars>>

\* handleSaveInvoice up to its await: the two checks, each ending the
\* handler with an error message, then isSaving and the call of the
\* service. The save button is disabled while isSaving.
handleSaveInvoice ==
  /\ ~form.isSaving
  /\ IF Len(form.invoice.items) = 0
     THEN /\ form' = [form EXCEPT !.saveMessage =
                        [type |-> "error", text |-> "add items to the invoice"]]
          /\ UNCHANGED storeVars
     ELSE IF Len(form.invoice.number) = 0 \/ IsBlank(form.invoice.number)
     THEN /\ form' = [form EXCEPT !.saveMessage =
                        [type |-> "error", text |-> "enter the invoice number"]]
          /\ UNCHANGED storeVars
     ELSE /\ svc.pc = "idle"
          /\ svc.n < MaxSvcCalls
          /\ form' = [form EXCEPT !.isSaving = TRUE, !.saveMessage = NoMessage]
          /\ svc' = Begin(IF form.invoiceId # NoInvoiceId
                          THEN "updateInvoice" ELSE "createInvoice",
                          form.invoiceId, form.invoice)
          /\ UNCHANGED db
  /\ UNCHANGED <<qrVars, siteVars, appVars>>

\* handleSaveInvoice after its await: the success message and the timer of
\* 3 seconds, or the catch block's error message; finally isSaving is off.
SaveSettled ==
  /\ svc.pc = "done"
  /\ svc.op \in {"createInvoice", "updateInvoice"}
  /\ form' = IF svc.outcome = "returned"
             THEN [form EXCEPT
                     !.saveMessage =
                       [type |-> "success",
                        text |-> IF svc.op = "updateInvoice"
                                 THEN "invoice updated" ELSE "invoice saved"],
                     !.timer = TRUE, !.isSaving = FALSE]
             ELSE [form EXCEPT
                     !.saveMessage =
                       [type |-> "error",
                        text |-> IF svc.op = "updateInvoice"
                                 THEN "failed to update the invoice"
                                 ELSE "failed to save the invoice"],
                     !.isSaving = FALSE]
  /\ svc' = [svc EXCEPT !.op = "none", !.pc = "idle", !.before = EmptyDb]
  /\ UNCHANGED <<db, qrVars, siteVars, appVars>>

\* getInvoice, lines 98-120: the invoice document and the first page of its
\* items by ascending orderIndex.
getInvoice(invoiceId) ==
  [invoice |-> CHOOSE d \in db.invoices : d.id = invoiceId,
   items |-> FirstOf(ByOrderIndex(ItemsOf(invoiceId)), ListLimit)]

\* The invoice loadInvoiceForEdit hands to setInvoice, lines 146-184: the
\* stored invoice, its customer and its items.
LoadedInvoice(invoiceId) ==
  LET loaded == getInvoice(invoiceId)
      data == loaded.invoice.data
  IN  [number |-> data.invoiceNumber,
       customer |-> [name |-> data.customerName,
                     taxNumber |-> data.customerId],
       items |-> [i \in 1..Len(loaded.items) |->
                    [id |-> loaded.items[i].id,
                     description |-> loaded.items[i].data.description,
                     quantity |-> loaded.items[i].data.quantity,
                     price |-> loaded.items[i].data.price,
                     taxRate |-> loaded.items[i].data.taxRate,
                     total |-> loaded.items[i].data.total]],
       subtotal |-> data.subtotal, taxAmount |-> data.taxAmount,
       total |-> data.total, paid |-> data.paid,
       discount |-> data.discount, remaining |-> data.remaining]

\* The form opened on a stored invoice: loadInvoiceForEdit puts the stored
\* invoice and its items into the form's state.
loadInvoiceForEdit(invoiceId) ==
  /\ \E d \in db.invoices : d.id = invoiceId
  /\ svc.pc = "idle"
  /\ ~form.isSaving
  /\ form' = [InitialForm EXCEPT
                !.invoiceId = invoiceId,
                !.invoice = LoadedInvoice(invoiceId)]
  /\ UNCHANGED <<qrVars, siteVars, appVars, storeVars>>

\* handleDelete of the invoice list, once confirmed: deleteInvoice is
\* called.
handleDelete(invoiceId) ==
  /\ \E d \in db.invoices : d.id = invoiceId
  /\ svc.pc = "idle"
  /\ svc.n < MaxSvcCalls
  /\ svc' = Begin("deleteInvoice", invoiceId, InitialInvoice)
  /\ UNCHANGED <<db, qrVars, siteVars, appVars, formVars>>

\* handleDelete after its await: the list is reloaded or the error shown.
DeleteSettled ==
  /\ svc.pc = "done"
  /\ svc.op = "deleteInvoice"
  /\ svc' = [svc EXCEPT !.op = "none", !.pc = "idle", !.before = EmptyDb]
  /\ UNCHANGED <<db, qrVars, siteVars, appVars, formVars>>

\* "0000001" and a single space
Number0000001 ==
  <<48, 48, 48, 48, 48, 48, 49>>

InvoiceNumbers ==
  {<<>>, <<32>>, Number0000001}

\* The item addItem appends for the description "Widget".
WidgetItem(id, quantity, price) ==
  [id |-> id, description |-> <<87, 105, 100, 103, 101, 116>>,
   quantity |-> quantity, price |-> price, taxRate |-> 15,
   total |-> quantity * price]

\* The form after the items were added to a fresh invoice.
FormWith(number, items) ==
  LET t == TotalsOf(items, 0, 0, -1)
  IN  [InitialForm EXCEPT
         !.invoice.number = number, !.invoice.items = items,
         !.invoice.subtotal = t.subtotal, !.invoice.taxAmount = t.taxAmount,
         !.invoice.total = t.total, !.invoice.remaining = t.remaining]

\* Item lists of every length up to MaxItems.
ItemLists ==
  {[i \in 1..n |-> WidgetItem(1000 + i, i, 10000)] : n \in 0..MaxItems}

----------------------------------------------------------------------------
(* getNextInvoiceNumber: the number the form proposes for a new invoice.   *)

\* The order of two strings, code unit by code unit: the order
\* Query.orderDesc('invoiceNumber') sorts a string attribute by.
RECURSIVE StringLess(_, _)
StringLess(a, b) ==
  IF Len(b) = 0 THEN FALSE
  ELSE IF Len(a) = 0 THEN TRUE
  ELSE IF a[1] # b[1] THEN a[1] < b[1]
  ELSE StringLess(Tail(a), Tail(b))

\* [Query.orderDesc('invoiceNumber'), Query.limit(1)]: the stored invoice
\* whose number sorts last.
LastByInvoiceNumber ==
  CHOOSE d \in db.invoices : \A e \in db.invoices :
    ~StringLess(d.data.invoiceNumber, e.data.invoiceNumber)

\* The value of a digit in a radix, -1 for any other character.
DigitOf(c, radix) ==
  IF c >= 48 /\ c <= 57 THEN c - 48
  ELSE IF radix = 16 /\ c >= 97 /\ c <= 102 THEN c - 87
  ELSE IF radix = 16 /\ c >= 65 /\ c <= 70 THEN c - 55
  ELSE -1

RECURSIVE DigitPrefixLength(_, _)
DigitPrefixLength(s, radix) ==
  IF Len(s) = 0 \/ DigitOf(s[1], radix) < 0 THEN 0
  ELSE 1 + DigitPrefixLength(Tail(s), radix)

RECURSIVE ValueOfDigits(_, _)
ValueOfDigits(s, radix) ==
  IF Len(s) = 0 THEN 0
  ELSE ValueOfDigits(SubSeq(s, 1, Len(s) - 1), radix) * radix
         + DigitOf(s[Len(s)], radix)

RECURSIVE TrimStart(_)
TrimStart(s) ==
  IF Len(s) > 0 /\ IsWhiteSpace(s[1]) THEN TrimStart(Tail(s)) ELSE s

\* The result of parseInt and of lastNumber + 1: NaN or an integer.
NaNInteger ==
  [nan |-> TRUE, value |-> 0]

\* parseInt(string): white space is skipped, a sign is read, 0x or 0X makes
\* the radix 16, and the longest prefix of digits is the value; NaN when
\* there is no digit.
parseInt(s) ==
  LET t == TrimStart(s)
      neg == Len(t) > 0 /\ t[1] = 45
      u == IF Len(t) > 0 /\ t[1] \in {43, 45} THEN Tail(t) ELSE t
      hex == Len(u) >= 2 /\ u[1] = 48 /\ u[2] \in {120, 88}
      radix == IF hex THEN 16 ELSE 10
      v == IF hex THEN SubSeq(u, 3, Len(u)) ELSE u
      n == DigitPrefixLength(v, radix)
  IN  IF n = 0 THEN NaNInteger
      ELSE [nan |-> FALSE,
            value |-> (IF neg THEN -1 ELSE 1)
                        * ValueOfDigits(SubSeq(v, 1, n), radix)]

\* nextNumber.toString()
IntegerToString(x) ==
  IF x.nan THEN <<78, 97, 78>>
  ELSE IF x.value < 0 THEN <<45>> \o Digits(-x.value)
  ELSE Digits(x.value)

\* s.padStart(w, c)
padStart(s, w, c) ==
  IF Len(s) >= w THEN s ELSE [i \in 1..(w - Len(s)) |-> c] \o s

\* getNextInvoiceNumber, lines 271-291; ok is whether listDocuments
\* answers. The catch block returns '0000001' as well.
getNextInvoiceNumber(ok) ==
  IF ~ok THEN Number0000001
  ELSE IF db.invoices = {} THEN Number0000001
  ELSE LET lastNumber == parseInt(LastByInvoiceNumber.data.invoiceNumber)
           nextNumber == [lastNumber EXCEPT !.value = @ + 1]
       IN  padStart(IntegerToString(nextNumber), 7, 48)

----------------------------------------------------------------------------
(* The App component and the effects of the form. App renders the form     *)
(* while currentPage is 'create', always at the same place and without a   *)
(* key: the form is mounted when the page becomes 'create', unmounted when *)
(* it becomes another page, and keeps its state when only the ids change.  *)
(* An effect of the form is an async function: it is pending from the      *)
(* render that starts it until its awaits are over, and then sets state.   *)

\* useState<Page>('create'), and null for the two ids.
InitialApp ==
  [currentPage |-> "create", editingInvoiceId |-> NoInvoiceId,
   viewingInvoiceId |-> NoInvoiceId]

Effect(name, invoiceId) ==
  [effect |-> name, invoiceId |-> invoiceId]

\* The two effects with the dependency [invoiceId]: loadInvoiceNumber
\* returns at once with an id, loadInvoiceForEdit without one.
IdEffects(invoiceId) ==
  IF invoiceId = NoInvoiceId
  THEN {Effect("loadInvoiceNumber", invoiceId)}
  ELSE {Effect("loadInvoiceForEdit", invoiceId)}

\* The form as it is mounted: its initial state and the effects of the
\* first render.
MountedForm(invoiceId) ==
  [InitialForm EXCEPT
     !.invoiceId = invoiceId,
     !.pending = {Effect("loadData", invoiceId)} \cup IdEffects(invoiceId)]

\* invoiceId={editingInvoiceId || viewingInvoiceId}
InvoiceIdProp(a) ==
  IF a.editingInvoiceId # NoInvoiceId THEN a.editingInvoiceId
  ELSE a.viewingInvoiceId

\* The form f after App has rendered with the state a. The timer of a save
\* is not cleared when the form is unmounted; what an effect sets on an
\* unmounted form is lost.
Rendered(f, a) ==
  IF a.currentPage # "create"
  THEN [InitialForm EXCEPT !.mounted = FALSE, !.timer = f.timer]
  ELSE IF ~f.mounted
  THEN [MountedForm(InvoiceIdProp(a)) EXCEPT !.timer = f.timer]
  ELSE IF InvoiceIdProp(a) = f.invoiceId THEN f
  ELSE [f EXCEPT !.invoiceId = InvoiceIdProp(a),
                 !.pending = @ \cup IdEffects(InvoiceIdProp(a))]

\* The button of the sidebar, lines 34-38; App renders again.
handleNewInvoice ==
  /\ app' = [currentPage |-> "create", editingInvoiceId |-> NoInvoiceId,
             viewingInvoiceId |-> NoInvoiceId]
  /\ form' = Rendered(form, app')
  /\ UNCHANGED <<qrVars, siteVars, storeVars, sessions>>

\* onEditInvoice of the invoice list.
handleEditInvoice(invoiceId) ==
  /\ app.currentPage = "list"
  /\ app' = [currentPage |-> "create", editingInvoiceId |-> invoiceId,
             viewingInvoiceId |-> NoInvoiceId]
  /\ form' = Rendered(form, app')
  /\ UNCHANGED <<qrVars, siteVars, storeVars, sessions>>

\* onViewInvoice of the invoice list.
handleViewInvoice(invoiceId) ==
  /\ app.currentPage = "list"
  /\ app' = [currentPage |-> "create", editingInvoiceId |-> NoInvoiceId,
             viewingInvoiceId |-> invoiceId]
  /\ form' = Rendered(form, app')
  /\ UNCHANGED <<qrVars, siteVars, storeVars, sessions>>

\* The two other buttons of the sidebar: setCurrentPage('list') and
\* setCurrentPage('settings').
setCurrentPage(page) ==
  /\ app.currentPage # page
  /\ app' = [app EXCEPT !.currentPage = page]
  /\ form' = Rendered(form, app')
  /\ UNCHANGED <<qrVars, siteVars, storeVars, sessions>>

\* onSaveComplete={() => setCurrentPage('list')}
onSaveComplete ==
  "list"

\* The callback of setTimeout(..., 3000) of a successful save: the message
\* is cleared and onSaveComplete, which App always passes, is called.
saveTimeout ==
  /\ form.timer
  /\ app' = [app EXCEPT !.currentPage = onSaveComplete]
  /\ form' = Rendered([form EXCEPT !.timer = FALSE,
                                   !.saveMessage =
                                     IF form.mounted THEN NoMessage ELSE @],
                      app')
  /\ UNCHANGED <<qrVars, siteVars, storeVars, sessions>>

\* The end of the effect loadInvoiceNumber, lines 110-125.
loadInvoiceNumberSettled(ok) ==
  /\ form.mounted
  /\ \E e \in form.pending :
       /\ e.effect = "loadInvoiceNumber"
       /\ form' = [form EXCEPT !.invoice.number = getNextInvoiceNumber(ok),
                               !.pending = @ \ {e}]
  /\ UNCHANGED <<qrVars, siteVars, storeVars, appVars>>

\* The end of the effect loadData, lines 70-108: the customers are set and
\* the first of them becomes the invoice's customer; ok is whether
\* getCompanyInfo and listCustomers answer.
loadDataSettled(ok) ==
  /\ form.mounted
  /\ \E e \in form.pending :
       /\ e.effect = "loadData"
       /\ form' = IF ok
                  THEN [form EXCEPT
                          !.customers = db.customers,
                          !.invoice.customer =
                            IF Len(db.customers) > 0 THEN db.customers[1]
                            ELSE @,
                          !.pending = @ \ {e}]
                  ELSE [form EXCEPT
                          !.saveMessage =
                            [type |-> "error",
                             text |-> "failed to load the data"],
                          !.pending = @ \ {e}]
  /\ UNCHANGED <<qrVars, siteVars, storeVars, appVars>>

\* The end of the effect loadInvoiceForEdit, lines 127-196, started for
\* the invoice e.invoiceId: setInvoice replaces the invoice of the form;
\* ok is whether getInvoice and getCompanyInfo answer.
loadInvoiceForEditSettled(ok) ==
  /\ form.mounted
  /\ \E e \in form.pending :
       /\ e.effect = "loadInvoiceForEdit"
       /\ form' = IF ok /\ \E d \in db.invoices : d.id = e.invoiceId
                  THEN [form EXCEPT
                          !.invoice = LoadedInvoice(e.invoiceId),
                          !.pending = @ \ {e}]
                  ELSE [form EXCEPT
                          !.saveMessage =
                            [type |-> "error",
                             text |-> "failed to load the invoice"],
                          !.pending = @ \ {e}]
  /\ UNCHANGED <<qrVars, siteVars, storeVars, appVars>>

\* Two customers of the settings page.
CustomerAcme ==
  [name |-> <<65, 99, 109, 101>>, taxNumber |-> <<51, 48, 49>>]

CustomerBravo ==
  [name |-> <<66, 114, 97, 118, 111>>, taxNumber |-> <<51, 48, 50>>]

\* The invoice number 0000001 of a customer with one item, as the form
\* holds it when it is saved.
InvoiceOf(customer) ==
  [FormWith(Number0000001, <<WidgetItem(1001, 1, 10000)>>).invoice
     EXCEPT !.customer = customer]

\* The database after createInvoice has stored that invoice: the invoice
\* document 1 and its item document 2.
StoredDb(customer, customers) ==
  [invoices |-> {Doc(1, InvoiceData(InvoiceOf(customer)))},
   items |-> {Doc(2, ItemData(1, InvoiceOf(customer).items[1], 0))},
   nextId |-> 3, customers |-> customers]

\* The form right after handleSaveInvoice has saved that invoice as a new
\* one: the success message is shown and the timer runs.
SavedForm(customer, customers) ==
  [InitialForm EXCEPT
     !.invoice = InvoiceOf(customer), !.customers = customers,
     !.saveMessage = [type |-> "success", text |-> "invoice saved"],
     !.timer = TRUE]

----------------------------------------------------------------------------
(* Form sessions in several browsers on the same database. A session       *)
(* mounts the form, receives its invoice number from getNextInvoiceNumber, *)
(* and saves an invoice of one item with createInvoice.                    *)

\* How many sessions there are.
NumSessions == 2

Sessions ==
  1..NumSessions

ClosedSession ==
  [pc |-> "closed", number |-> <<>>, invoiceId |-> NoInvoiceId]

AppIdle ==
  /\ app = InitialApp
  /\ sessions = [s \in Sessions |-> ClosedSession]

\* The browser opens the application: the form is mounted and its effect
\* loadInvoiceNumber starts.
sessionMount(s) ==
  /\ sessions[s].pc = "closed"
  /\ sessions' = [sessions EXCEPT ![s].pc = "mounted"]
  /\ UNCHANGED <<qrVars, siteVars, formVars, storeVars, app>>

\* The end of the session's effect loadInvoiceNumber.
sessionLoadInvoiceNumber(s, ok) ==
  /\ sessions[s].pc = "mounted"
  /\ sessions' = [sessions EXCEPT ![s].pc = "numbered",
                                  ![s].number = getNextInvoiceNumber(ok)]
  /\ UNCHANGED <<qrVars, siteVars, formVars, storeVars, app>>

\* handleSaveInvoice of the session and createInvoice, lines 38-61: the
\* invoice document is created under the session's number.
sessionCreateInvoiceDocument(s, ok) ==
  /\ sessions[s].pc = "numbered"
  /\ IF ok
     THEN /\ db' = [db EXCEPT
                !.invoices = @ \cup
                  {Doc(db.nextId,
                       InvoiceData([InvoiceOf(NoCustomer) EXCEPT
                                      !.number = sessions[s].number]))},
                !.nextId = @ + 2]
          /\ sessions' = [sessions EXCEPT ![s].pc = "creating",
                                          ![s].invoiceId = db.nextId]
     ELSE /\ sessions' = [sessions EXCEPT ![s].pc = "failed"]
          /\ UNCHANGED db
  /\ UNCHANGED <<qrVars, siteVars, formVars, svc, app>>

\* createInvoice, lines 63-86: the document of the one item is created.
sessionCreateItemDocument(s, ok) ==
  /\ sessions[s].pc = "creating"
  /\ IF ok
     THEN /\ db' = [db EXCEPT
                !.items = @ \cup
                  {Doc(sessions[s].invoiceId + 1,
                       ItemData(sessions[s].invoiceId,
                                InvoiceOf(NoCustomer).items[1], 0))}]
          /\ sessions' = [sessions EXCEPT ![s].pc = "saved"]
     ELSE /\ sessions' = [sessions EXCEPT ![s].pc = "failed"]
          /\ UNCHANGED db
  /\ UNCHANGED <<qrVars, siteVars, formVars, svc, app>>

\* The invoice numbers stored when the form asks for the next one.
StoredNumbers ==
  << Number0000001, <<48, 48, 48, 48, 48, 48, 50>>,
     <<48, 48, 48, 48, 48, 49, 48>>, <<57>>, <<49, 48>>,
     <<73, 78, 86, 45, 49>>, <<57, 57, 57, 57, 57, 57, 57>> >>

\* The database that stores the invoices of the numbers at the positions
\* chosen: document i holds the number StoredNumbers[i], and each invoice
\* has one item.
DbOfNumbers(chosen) ==
  [EmptyDb EXCEPT
     !.invoices = {Doc(i, InvoiceData([InvoiceOf(NoCustomer) EXCEPT
                                         !.number = StoredNumbers[i]])) :
                     i \in chosen},
     !.items = {Doc(Len(StoredNumbers) + i,
                    ItemData(i, InvoiceOf(NoCustomer).items[1], 0)) :
                  i \in chosen},
     !.nextId = 2 * Len(StoredNumbers) + 1]

----------------------------------------------------------------------------
(* The state machine.                                                      *)

\* A call of generateZatcaQrCode(invoice) at the current instant. The
\* function assigns to nothing but its own locals: the invoice is unchanged.
CallGenerateZatcaQrCode ==
  /\ Len(qrCalls) < MaxCalls
  /\ qrCalls' = Append(qrCalls,
       [invoice |-> invoice, at |-> now,
        result |-> generateZatcaQrCode(invoice, now, engine)])
  /\ UNCHANGED <<invoice, now, engine, tlvCalls, siteVars, appVars, formVars,
                 storeVars>>

\* Time passes.
Tick ==
  /\ \E t \in Clocks : Later(now, t) /\ now' = t
  /\ UNCHANGED <<invoice, engine, qrCalls, tlvCalls, siteVars, appVars,
                 formVars, storeVars>>

\* A call of encodeTLV(tag, value).
CallEncodeTLV ==
  /\ Len(tlvCalls) < MaxTlvCalls
  /\ \E tag \in Tags, value \in TlvValues :
       tlvCalls' = Append(tlvCalls,
         [tag |-> tag, value |-> value, out |-> encodeTLV(tag, value)])
  /\ UNCHANGED <<invoice, now, engine, qrCalls, siteVars, appVars, formVars,
                 storeVars>>

\* The payload builder applied to every invoice, at every instant.
QrInit ==
  /\ invoice \in Invoices
  /\ now \in Clocks
  /\ engine \in Engines
  /\ qrCalls = <<>>
  /\ tlvCalls = <<>>
  /\ SitesIdle
  /\ AppIdle
  /\ FormIdle
  /\ StoreIdle

QrNext ==
  \/ CallGenerateZatcaQrCode
  \/ Tick

QrSpec ==
  QrInit /\ [][QrNext]_vars

\* The record encoder applied to every tag and value.
TlvInit ==
  /\ invoice = BaseInvoice
  /\ now = TimeValue(20760, 17467123)
  /\ engine = "strict"
  /\ qrCalls = <<>>
  /\ tlvCalls = <<>>
  /\ SitesIdle
  /\ AppIdle
  /\ FormIdle
  /\ StoreIdle

TlvNext ==
  CallEncodeTLV

TlvSpec ==
  TlvInit /\ [][TlvNext]_vars

\* Calls of the payload builder from several call sites, step by step.
SiteInit ==
  /\ invoice \in SiteInvoices
  /\ now \in Clocks
  /\ engine \in Engines
  /\ qrCalls = <<>>
  /\ tlvCalls = <<>>
  /\ SitesIdle
  /\ AppIdle
  /\ FormIdle
  /\ StoreIdle

SiteNext ==
  \/ \E c \in Sites : SiteResolve(c)
  \/ \E c \in Sites : SiteCombine(c)
  \/ \E c \in Sites : SiteReturn(c)
  \/ Tick

SiteSpec ==
  SiteInit /\ [][SiteNext]_vars

\* The invoice form filled in by the user.
FormInit ==
  /\ invoice = BaseInvoice
  /\ now = TimeValue(20760, 17467123)
  /\ engine = "strict"
  /\ qrCalls = <<>>
  /\ tlvCalls = <<>>
  /\ SitesIdle
  /\ AppIdle
  /\ FormIdle
  /\ StoreIdle

FormNext ==
  \/ \E d \in Descriptions : SetNewItemDescription(d)
  \/ \E q \in Quantities : SetNewItemQuantity(q)
  \/ \E p \in Prices : SetNewItemPrice(p)
  \/ addItem
  \/ \E id \in ItemIds : removeItem(id)
  \/ \E paid \in PaidAmounts : updatePaidAmount(paid)
  \/ \E discount \in DiscountAmounts : updateDiscountAmount(discount)

FormSpec ==
  FormInit /\ [][FormNext]_vars

\* Invoices saved, opened again, saved again and deleted. The form starts
\* as the user has filled it in: with or without a number and items.
SaveInit ==
  /\ invoice = BaseInvoice
  /\ now = TimeValue(20760, 17467123)
  /\ engine = "strict"
  /\ qrCalls = <<>>
  /\ tlvCalls = <<>>
  /\ SitesIdle
  /\ AppIdle
  /\ form \in {FormWith(number, items) :
                 number \in InvoiceNumbers, items \in ItemLists}
  /\ StoreIdle

SaveNext ==
  \/ handleSaveInvoice
  \/ SaveSettled
  \/ \E id \in 1..db.nextId : loadInvoiceForEdit(id)
  \/ \E id \in 1..db.nextId : handleDelete(id)
  \/ DeleteSettled
  \/ \E ok \in BOOLEAN : svcCreateInvoiceDocument(ok)
  \/ \E ok \in BOOLEAN : svcUpdateInvoiceDocument(ok)
  \/ \E ok \in BOOLEAN : svcListItems(ok)
  \/ \E r \in svc.requests, ok \in BOOLEAN : svcAnswer(r, ok)
  \/ svcAfterDeletes
  \/ \E ok \in BOOLEAN : svcDeleteInvoiceDocument(ok)
  \/ svcReturn

SaveSpec ==
  SaveInit /\ [][SaveNext]_vars

\* The form is mounted for a new invoice while the database stores any of
\* the invoices of StoredNumbers; its two effects end in either order.
NumberInit ==
  /\ invoice = BaseInvoice
  /\ now = TimeValue(20760, 17467123)
  /\ engine = "strict"
  /\ qrCalls = <<>>
  /\ tlvCalls = <<>>
  /\ SitesIdle
  /\ AppIdle
  /\ form = MountedForm(NoInvoiceId)
  /\ db \in {DbOfNumbers(chosen) : chosen \in SUBSET (1..Len(StoredNumbers))}
  /\ svc = IdleService

NumberNext ==
  \/ \E ok \in BOOLEAN : loadInvoiceNumberSettled(ok)
  \/ \E ok \in BOOLEAN : loadDataSettled(ok)

NumberSpec ==
  NumberInit /\ [][NumberNext]_vars

\* The sessions of several browsers on a database that is empty or stores
\* the invoice 0000001.
RaceInit ==
  /\ invoice = BaseInvoice
  /\ now = TimeValue(20760, 17467123)
  /\ engine = "strict"
  /\ qrCalls = <<>>
  /\ tlvCalls = <<>>
  /\ SitesIdle
  /\ AppIdle
  /\ FormIdle
  /\ db \in {EmptyDb, StoredDb(NoCustomer, <<>>)}
  /\ svc = IdleService

RaceNext ==
  \/ \E s \in Sessions : sessionMount(s)
  \/ \E s \in Sessions, ok \in BOOLEAN : sessionLoadInvoiceNumber(s, ok)
  \/ \E s \in Sessions, ok \in BOOLEAN : sessionCreateInvoiceDocument(s, ok)
  \/ \E s \in Sessions, ok \in BOOLEAN : sessionCreateItemDocument(s, ok)

RaceSpec ==
  RaceInit /\ [][RaceNext]_vars

\* The application on a database that stores one invoice and up to two
\* customers: the form has just been mounted for a new invoice, or it has
\* just saved the stored invoice and the timer of the save runs. The user
\* navigates while the effects and the timer end at any moment.
AppInit ==
  /\ invoice = BaseInvoice
  /\ now = TimeValue(20760, 17467123)
  /\ engine = "strict"
  /\ qrCalls = <<>>
  /\ tlvCalls = <<>>
  /\ SitesIdle
  /\ AppIdle
  /\ svc = IdleService
  /\ \E customer \in {CustomerAcme, CustomerBravo},
        customers \in {<<>>, <<CustomerAcme>>,
                       <<CustomerAcme, CustomerBravo>>} :
       /\ db = StoredDb(customer, customers)
       /\ form \in {MountedForm(NoInvoiceId),
                    SavedForm(customer, customers)}

AppNext ==
  \/ handleNewInvoice
  \/ \E d \in db.invoices : handleEditInvoice(d.id)
  \/ \E d \in db.invoices : handleViewInvoice(d.id)
  \/ \E page \in {"list", "settings"} : setCurrentPage(page)
  \/ saveTimeout
  \/ \E ok \in BOOLEAN : loadInvoiceNumberSettled(ok)
  \/ \E ok \in BOOLEAN : loadDataSettled(ok)
  \/ \E ok \in BOOLEAN : loadInvoiceForEditSettled(ok)

AppSpec ==
  AppInit /\ [][AppNext]_vars

----------------------------------------------------------------------------
(* Reading a payload back, as a scanner of the QR code does. These         *)
(* operators are the yardstick of the properties below, not part of the    *)
(* program.                                                                *)

\* The 6-bit value of a base64 character, -1 for any other character.
Base64Value(c) ==
  IF c >= 65 /\ c <= 90 THEN c - 65
  ELSE IF c >= 97 /\ c <= 122 THEN c - 71
  ELSE IF c >= 48 /\ c <= 57 THEN c + 4
  ELSE IF c = 43 THEN 62
  ELSE IF c = 47 THEN 63
  ELSE -1

\* The number of = characters that end the text (at most two count).
PaddingOf(s) ==
  IF Len(s) >= 2 /\ s[Len(s)] = 61 /\ s[Len(s) - 1] = 61 THEN 2
  ELSE IF Len(s) >= 1 /\ s[Len(s)] = 61 THEN 1
  ELSE 0

\* Standard base64 text: whole groups of four characters of the alphabet,
\* no line breaks, = only as the padding of the last group.
IsBase64Text(s) ==
  /\ Len(s) % 4 = 0
  /\ \A i \in 1..(Len(s) - PaddingOf(s)) : Base64Value(s[i]) >= 0

\* The bytes a base64 text stands for.
Base64Decode(s) ==
  LET v(i) == IF s[i] = 61 THEN 0 ELSE Base64Value(s[i])
      Byte(i) ==
        LET k == (i - 1) \div 3
            j == (i - 1) % 3
        IN  IF j = 0 THEN v(4 * k + 1) * 4 + (v(4 * k + 2) \div 16)
            ELSE IF j = 1 THEN (v(4 * k + 2) % 16) * 16 + (v(4 * k + 3) \div 4)
            ELSE (v(4 * k + 3) % 4) * 64 + v(4 * k + 4)
  IN  [i \in 1..(3 * (Len(s) \div 4) - PaddingOf(s)) |-> Byte(i)]

\* The records of a TLV stream read from byte i on: each is its tag, its
\* length byte and the value bytes the length byte announces. A stream that
\* ends inside a record ends the reading with a record of tag -1.
RECURSIVE ParseTlvFrom(_, _)
ParseTlvFrom(b, i) ==
  IF i > Len(b) THEN <<>>
  ELSE IF i + 1 > Len(b) \/ i + 1 + b[i + 1] > Len(b) THEN
    <<[tag |-> -1, length |-> 0, value |-> SubSeq(b, i, Len(b))]>>
  ELSE
    <<[tag |-> b[i], length |-> b[i + 1],
       value |-> SubSeq(b, i + 2, i + 1 + b[i + 1])]>>
      \o ParseTlvFrom(b, i + 2 + b[i + 1])

ParseTlv(b) ==
  ParseTlvFrom(b, 1)

\* The number of UTF-8 bytes of a string: one to three for a character of
\* the basic plane, four for a surrogate pair, three (U+FFFD) for a lone
\* surrogate.
Utf8LengthOfUnit(s, i) ==
  IF IsLowSurrogate(s[i]) THEN
    (IF i > 1 /\ IsHighSurrogate(s[i - 1]) THEN 0 ELSE 3)
  ELSE IF IsHighSurrogate(s[i]) THEN
    (IF i < Len(s) /\ IsLowSurrogate(s[i + 1]) THEN 4 ELSE 3)
  ELSE IF s[i] < 128 THEN 1
  ELSE IF s[i] < 2048 THEN 2
  ELSE 3

RECURSIVE SumOver(_, _, _)
SumOver(f, lo, hi) ==
  IF lo > hi THEN 0
  ELSE IF lo = hi THEN f[lo]
  ELSE LET mid == (lo + hi) \div 2
       IN  SumOver(f, lo, mid) + SumOver(f, mid + 1, hi)

Utf8ByteLength(s) ==
  SumOver([i \in 1..Len(s) |-> Utf8LengthOfUnit(s, i)], 1, Len(s))

\* The code points of a string (a lone surrogate reads as U+FFFD).
CodePoints(s) ==
  LET starts == SelectSeq([i \in 1..Len(s) |-> i],
                  LAMBDA i : ~(IsLowSurrogate(s[i]) /\ i > 1
                               /\ IsHighSurrogate(s[i - 1])))
      At(i) ==
        IF IsHighSurrogate(s[i]) /\ i < Len(s) /\ IsLowSurrogate(s[i + 1])
        THEN 65536 + (s[i] - 55296) * 1024 + (s[i + 1] - 56320)
        ELSE IF IsHighSurrogate(s[i]) \/ IsLowSurrogate(s[i]) THEN 65533
        ELSE s[i]
  IN  [k \in 1..Len(starts) |-> At(starts[k])]

\* The code points a UTF-8 byte sequence decodes to; -1 where a character
\* is cut short or a byte is out of place.
Utf8Decode(b) ==
  LET IsCont(i) == i <= Len(b) /\ b[i] >= 128 /\ b[i] < 192
      Need(i) == IF b[i] < 128 THEN 0 ELSE IF b[i] < 224 THEN 1
                 ELSE IF b[i] < 240 THEN 2 ELSE 3
      starts == SelectSeq([i \in 1..Len(b) |-> i], LAMBDA i : ~IsCont(i))
      At(i) ==
        IF ~(\A j \in 1..Need(i) : IsCont(i + j)) \/ IsCont(i + Need(i) + 1)
        THEN -1
        ELSE IF Need(i) = 0 THEN b[i]
        ELSE IF Need(i) = 1 THEN (b[i] - 192) * 64 + (b[i + 1] - 128)
        ELSE IF Need(i) = 2 THEN
          (b[i] - 224) * 4096 + (b[i + 1] - 128) * 64 + (b[i + 2] - 128)
        ELSE (b[i] - 240) * 262144 + (b[i + 1] - 128) * 4096
               + (b[i + 2] - 128) * 64 + (b[i + 3] - 128)
  IN  IF Len(b) > 0 /\ IsCont(1) THEN <<-1>>
      ELSE [k \in 1..Len(starts) |-> At(starts[k])]

\* The bytes are exactly the UTF-8 form of the string.
IsUtf8Of(b, s) ==
  Len(b) = Utf8ByteLength(s) /\ Utf8Decode(b) = CodePoints(s)

\* The decoded payload of a call that returned.
PayloadOf(call) ==
  Base64Decode(call.result.value)

Min(a, b) ==
  IF a < b THEN a ELSE b

----------------------------------------------------------------------------
(* Properties of the payload builder.                                      *)

\* The five resolved field values of a recorded call.
FieldsOf(call) ==
  ResolvedFields(call.invoice, call.at, engine)

\* A valid invoice: each resolved value is at most 255 UTF-8 bytes.
IsValidInvoice(call) ==
  \A k \in 1..5 : Utf8ByteLength(FieldsOf(call)[k].s) <= 255

\* C1: for every valid invoice, the returned string is base64 text whose
\* bytes parse as a TLV stream of exactly five records with the tags 1, 2,
\* 3, 4, 5 in that order; each record's length byte is the UTF-8 byte length
\* of its value, its value bytes are that value in UTF-8, and the records of
\* 2 + length bytes span the whole buffer with nothing left over.
C1_RoundTrip ==
  \A i \in 1..Len(qrCalls) :
    LET call == qrCalls[i]
        f == FieldsOf(call)
        valid == \A k \in 1..5 : Utf8ByteLength(f[k].s) <= 255
        payload == PayloadOf(call)
        records == ParseTlv(payload)
    IN  valid =>
          /\ ~call.result.threw
          /\ IsBase64Text(call.result.value)
          /\ Len(records) = 5
          /\ \A k \in 1..5 :
               /\ records[k].tag = k
               /\ records[k].length = Utf8ByteLength(f[k].s)
               /\ IsUtf8Of(records[k].value, f[k].s)
          /\ Len(payload)
               = SumOver([k \in 1..5 |-> 2 + records[k].length], 1, 5)

\* A valid invoice with a seller name of two-byte characters was encoded.
C1_Witness ==
  \E i \in 1..Len(qrCalls) :
    /\ IsValidInvoice(qrCalls[i])
    /\ ~qrCalls[i].result.threw
    /\ qrCalls[i].invoice.company.defined
    /\ qrCalls[i].invoice.company.name = Str(ArabicName)

ExpectedFields(call) ==
  <<OrElse(CompanyName(call.invoice), UnknownSeller),
    OrElse(CompanyTaxNumber(call.invoice), ZeroTaxNumber),
    InvoiceDateTime(call.invoice, call.at, engine).s,
    toFixed(OrZero(call.invoice.taxAmount), 2).s,
    toFixed(OrZero(call.invoice.total), 2).s>>

\* Where the records of the values e start in a payload (0-based), each
\* record taking 2 bytes and the bytes of its value: element k is the start
\* of the record of tag k, element 6 the end of the payload.
OffsetsOf(e) ==
  LET size == <<2 + Utf8ByteLength(e[1]), 2 + Utf8ByteLength(e[2]),
                2 + Utf8ByteLength(e[3]), 2 + Utf8ByteLength(e[4]),
                2 + Utf8ByteLength(e[5])>>
  IN  <<0, size[1], size[1] + size[2], size[1] + size[2] + size[3],
        size[1] + size[2] + size[3] + size[4],
        size[1] + size[2] + size[3] + size[4] + size[5]>>

\* The record of tag k lies at its place off[k] in the payload b and carries
\* the value e[k] in UTF-8.
RecordCarries(b, off, e, k) ==
  /\ off[k + 1] <= Len(b)
  /\ b[off[k] + 1] = k
  /\ IsUtf8Of(SubSeq(b, off[k] + 3, off[k + 1]), e[k])

\* C3: in every payload the record with tag 1 carries the seller name, tag 2
\* the seller tax number, tag 3 the invoice date-time, tag 4 the VAT amount
\* and tag 5 the total amount, one after the other in exactly that order.
C3_FieldOrder ==
  \A i \in 1..Len(qrCalls) :
    LET call == qrCalls[i]
        e == ExpectedFields(call)
        off == OffsetsOf(e)
        payload == PayloadOf(call)
    IN  ~call.result.threw =>
          /\ Len(payload) = off[6]
          /\ \A k \in 1..5 : RecordCarries(payload, off, e, k)

\* The invoice of seller "Test Co" with tax 15.00 and total 115.00 was
\* encoded.
C3_Witness ==
  \E i \in 1..Len(qrCalls) :
    /\ qrCalls[i].invoice = BaseInvoice
    /\ ~qrCalls[i].result.threw

\* The text of the record of tag k as a scanner reads it: the bytes the
\* record's length byte announces, after the records before it. The values
\* of the date-time and amount records are ASCII, a byte per character.
RecordText(call, k) ==
  LET off == OffsetsOf(ExpectedFields(call))
      payload == PayloadOf(call)
      length == payload[off[k] + 2]
  IN  SubSeq(payload, off[k] + 3, off[k] + 2 + length)

\* The record of tag k of the call's payload carries the text s.
RecordValueIs(call, k, s) ==
  LET e == [ExpectedFields(call) EXCEPT ![k] = s]
  IN  RecordCarries(PayloadOf(call), OffsetsOf(e), e, k)

\* The date YYYY-MM-DD at the start of s names a day of the calendar.
IsCalendarDate(s) ==
  /\ Len(s) >= 10
  /\ DatePartOk(SubSeq(s, 1, 10))
  /\ NumberAt(s, 6, 7) \in 1..12
  /\ NumberAt(s, 9, 10) >= 1
  /\ NumberAt(s, 9, 10) <= DaysInMonth(NumberAt(s, 1, 4), NumberAt(s, 6, 7))

\* The time HH:mm:ss at positions 12..19 of s is a time of day.
IsTimeOfDay(s) ==
  /\ s[11] = 84 /\ s[14] = 58 /\ s[17] = 58
  /\ AllDigits(s, 12, 13) /\ AllDigits(s, 15, 16) /\ AllDigits(s, 18, 19)
  /\ NumberAt(s, 12, 13) <= 23
  /\ NumberAt(s, 15, 16) <= 59
  /\ NumberAt(s, 18, 19) <= 59

\* The instant a stored timestamp names, NaNTime when it names none. The
\* forms are the date YYYY-MM-DD (its midnight, UTC) and the date with a time
\* of day in UTC: ...THH:mm:ssZ, ...THH:mm:ss.sssZ and ...THH:mm:ss.sss+00:00.
InstantOf(s) ==
  LET day == MakeDay(NumberAt(s, 1, 4), NumberAt(s, 6, 7), NumberAt(s, 9, 10))
      time == MakeTime(NumberAt(s, 12, 13), NumberAt(s, 15, 16),
                       NumberAt(s, 18, 19), 0)
      fraction == s[20] = 46 /\ AllDigits(s, 21, 23)
      utcOffset == s[24] = 43 /\ s[25] = 48 /\ s[26] = 48 /\ s[27] = 58
                   /\ s[28] = 48 /\ s[29] = 48
  IN  IF Len(s) \notin {10, 20, 24, 29} \/ ~IsCalendarDate(s) THEN NaNTime
      ELSE IF Len(s) = 10 THEN TimeValue(day, 0)
      ELSE IF ~IsTimeOfDay(s) THEN NaNTime
      ELSE IF Len(s) = 20 THEN
        (IF s[20] = 90 THEN TimeValue(day, time) ELSE NaNTime)
      ELSE IF ~fraction THEN NaNTime
      ELSE IF Len(s) = 24 THEN
        (IF s[24] = 90 THEN TimeValue(day, time + NumberAt(s, 21, 23))
         ELSE NaNTime)
      ELSE IF utcOffset THEN TimeValue(day, time + NumberAt(s, 21, 23))
      ELSE NaNTime

\* C4: for any invoice whose stored timestamp can be parsed, the value of
\* record 3 is that same instant rendered as YYYY-MM-DDTHH:mm:ss.sssZ; the
\* timestamp 2024-01-15T10:30:00Z gives "2024-01-15T10:30:00.000Z".
C4_TimestampRendered ==
  \A i \in 1..Len(qrCalls) :
    LET call == qrCalls[i]
        stored == call.invoice.date
        instant == InstantOf(stored.s)
    IN  (stored.defined /\ ~instant.nan /\ ~call.result.threw) =>
          /\ RecordText(call, 3) = toISOString(instant).s
          /\ InstantOf(RecordText(call, 3)) = instant

\* C5: generateZatcaQrCode returns a string and never throws, whatever of
\* the company, the seller name, the tax number, the date, taxAmount and
\* total the invoice lacks.
C5_NeverThrows ==
  \A i \in 1..Len(qrCalls) :
    /\ ~qrCalls[i].result.threw
    /\ Len(qrCalls[i].result.value) > 0
    /\ IsBase64Text(qrCalls[i].result.value)

\* The invoice with no company, no date and no amounts was encoded.
C5_Witness ==
  \E i \in 1..Len(qrCalls) :
    /\ qrCalls[i].invoice
         = Invoice(NoCompany, Undefined, NumUndefined, NumUndefined)
    /\ ~qrCalls[i].result.threw

\* C6: when a field's UTF-8 byte length exceeds 255, its record carries only
\* the first 255 bytes of the value: every record of the payload is its tag,
\* a length byte of at most 255 and exactly that many value bytes.
C6_OversizedTruncated ==
  \A i \in 1..Len(qrCalls) :
    LET call == qrCalls[i]
        e == ExpectedFields(call)
        kept == [k \in 1..5 |->
                   SubSeq(TextEncoderEncode(e[k]), 1,
                          Min(Utf8ByteLength(e[k]), 255))]
        records == ParseTlv(PayloadOf(call))
    IN  (~call.result.threw /\ \E k \in 1..5 : Utf8ByteLength(e[k]) > 255) =>
          /\ Len(records) = 5
          /\ \A k \in 1..5 :
               /\ records[k].tag = k
               /\ records[k].length = Len(kept[k])
               /\ records[k].value = kept[k]

\* The ISO 8601 text YYYY-MM-DDTHH:mm:ss.sssZ of an instant in UTC.
IsIsoUtcText(s) ==
  /\ Len(s) = 24
  /\ IsCalendarDate(s)
  /\ IsTimeOfDay(s)
  /\ s[20] = 46 /\ AllDigits(s, 21, 23)
  /\ s[24] = 90

\* The invoice's date is missing (absent or empty), or is text that names
\* no date in any engine.
DateMissingOrUnparseable(inv) ==
  \/ ~inv.date.defined
  \/ Len(inv.date.s) = 0
  \/ /\ InstantOf(inv.date.s).nan
     /\ ~(/\ DatePartOk(inv.date.s)
          /\ Len(inv.date.s) >= 7 => NumberAt(inv.date.s, 6, 7) \in 1..12
          /\ Len(inv.date.s) = 10 => NumberAt(inv.date.s, 9, 10) \in 1..31)

\* C7: when the invoice's date is missing or cannot be parsed, no error is
\* raised and record 3 is the instant of the call, as text of the form
\* YYYY-MM-DDTHH:mm:ss.sssZ.
C7_DateFallback ==
  \A i \in 1..Len(qrCalls) :
    LET call == qrCalls[i]
    IN  DateMissingOrUnparseable(call.invoice) =>
          /\ ~call.result.threw
          /\ IsIsoUtcText(RecordText(call, 3))
          /\ InstantOf(RecordText(call, 3)) = call.at

\* An invoice dated "2024-13-01", which names no date, was encoded.
C7_Witness ==
  \E i \in 1..Len(qrCalls) :
    /\ qrCalls[i].invoice.date
         = Str(<<50, 48, 50, 52, 45, 49, 51, 45, 48, 49>>)
    /\ DateMissingOrUnparseable(qrCalls[i].invoice)
    /\ ~qrCalls[i].result.threw

\* The invoice has no seller name: no company, no name, or an empty name.
NoSellerName(inv) ==
  \/ ~inv.company.defined
  \/ ~inv.company.name.defined
  \/ Len(inv.company.name.s) = 0

\* C8: the value of record 1 is "Unknown Seller" if the invoice has no
\* seller name, and the seller name unchanged otherwise.
C8_SellerName ==
  \A i \in 1..Len(qrCalls) :
    LET call == qrCalls[i]
    IN  ~call.result.threw =>
          RecordValueIs(call, 1,
            IF NoSellerName(call.invoice)
            THEN <<85, 110, 107, 110, 111, 119, 110, 32, 83, 101, 108, 108,
                   101, 114>>
            ELSE call.invoice.company.name.s)

\* An invoice of a company with an empty name was encoded.
C8_Witness ==
  \E i \in 1..Len(qrCalls) :
    /\ qrCalls[i].invoice.company.defined
    /\ qrCalls[i].invoice.company.name = Str(<<>>)
    /\ ~qrCalls[i].result.threw

\* The invoice has no seller tax number: no company, no number, or an empty
\* number.
NoTaxNumber(inv) ==
  \/ ~inv.company.defined
  \/ ~inv.company.taxNumber.defined
  \/ Len(inv.company.taxNumber.s) = 0

\* C9: the value of record 2 is "000000000000000", fifteen zero digits, if
\* the invoice has no seller tax number, and the tax number unchanged
\* otherwise.
C9_TaxNumber ==
  \A i \in 1..Len(qrCalls) :
    LET call == qrCalls[i]
    IN  ~call.result.threw =>
          RecordValueIs(call, 2,
            IF NoTaxNumber(call.invoice)
            THEN Repeat(48, 15)
            ELSE call.invoice.company.taxNumber.s)

\* An invoice of a company with a name and no tax number was encoded.
C9_Witness ==
  \E i \in 1..Len(qrCalls) :
    /\ qrCalls[i].invoice.company.defined
    /\ qrCalls[i].invoice.company.name = Str(TestCo)
    /\ ~qrCalls[i].invoice.company.taxNumber.defined
    /\ ~qrCalls[i].result.threw

\* Text of a decimal number with exactly two digits after the point: an
\* optional minus sign, digits with no leading zero and no separator, a
\* point, two digits.
IsTwoDecimalText(s) ==
  LET n == Len(s)
      first == IF n >= 1 /\ s[1] = 45 THEN 2 ELSE 1
  IN  /\ n - first >= 3
      /\ s[n - 2] = 46
      /\ AllDigits(s, n - 1, n)
      /\ AllDigits(s, first, n - 3)
      /\ (n - 3 > first => s[first] # 48)

\* The number of hundredths a two-decimal text names, without its sign.
HundredthsOf(s) ==
  LET n == Len(s)
      first == IF s[1] = 45 THEN 2 ELSE 1
  IN  NumberAt(s, first, n - 3) * 100 + NumberAt(s, n - 1, n)

\* h hundredths is the amount x rounded to two decimals: no number of
\* hundredths is nearer to the magnitude of x, and of two equally near ones h
\* is the larger.
IsRounded(x, h) ==
  LET diff == x.milli - 10 * h
  IN  /\ diff < 5 \/ (diff = 5 /\ x.err < 0)
      /\ diff > -5 \/ (diff = -5 /\ x.err >= 0)

\* The text s is the amount x as a decimal string with exactly two digits
\* after the decimal point, rounded, without separators or symbols.
IsAmountText(x, s) ==
  /\ IsTwoDecimalText(s)
  /\ x.kind = "fin"
  /\ IsRounded(x, HundredthsOf(s))
  /\ (s[1] = 45) = (x.neg /\ ~IsZero(x))

\* C10: the values of records 4 and 5 are the tax amount and the total
\* amount as decimal strings with exactly two digits after the decimal
\* point, rounded, with no thousands separators and no currency symbol; 0
\* gives "0.00", 0.1 gives "0.10", 1234.5 gives "1234.50" and 1000000.456
\* gives "1000000.46".
C10_TwoDecimals ==
  \A i \in 1..Len(qrCalls) :
    LET call == qrCalls[i]
        Holds(x, s) ==
          /\ x.kind \notin {"undefined", "nan"} => IsAmountText(x, s)
          /\ x = Fin(FALSE, 0, 0) => s = <<48, 46, 48, 48>>
          /\ x = Fin(FALSE, 100, 1) => s = <<48, 46, 49, 48>>
          /\ x = Fin(FALSE, 1234500, 0) => s = <<49, 50, 51, 52, 46, 53, 48>>
          /\ x = Fin(FALSE, 1000000456, 1)
               => s = <<49, 48, 48, 48, 48, 48, 48, 46, 52, 54>>
    IN  ~call.result.threw =>
          /\ Holds(call.invoice.taxAmount, RecordText(call, 4))
          /\ Holds(call.invoice.total, RecordText(call, 5))

\* The same for the amounts whose magnitude is below 10^21.
TwoDecimalsBelow1e21 ==
  \A i \in 1..Len(qrCalls) :
    LET call == qrCalls[i]
    IN  ~call.result.threw =>
          /\ call.invoice.taxAmount.kind = "fin"
               => IsAmountText(call.invoice.taxAmount, RecordText(call, 4))
          /\ call.invoice.total.kind = "fin"
               => IsAmountText(call.invoice.total, RecordText(call, 5))

\* C11: if the invoice's taxAmount is missing, record 4 has the value
\* "0.00", and if its total is missing, record 5 has the value "0.00".
C11_MissingAmountIsZero ==
  \A i \in 1..Len(qrCalls) :
    LET call == qrCalls[i]
    IN  /\ call.invoice.taxAmount.kind = "undefined" =>
             /\ ~call.result.threw
             /\ RecordValueIs(call, 4, <<48, 46, 48, 48>>)
        /\ call.invoice.total.kind = "undefined" =>
             /\ ~call.result.threw
             /\ RecordValueIs(call, 5, <<48, 46, 48, 48>>)

\* An invoice with a tax amount and no total was encoded.
C11_Witness ==
  \E i \in 1..Len(qrCalls) :
    /\ qrCalls[i].invoice.total.kind = "undefined"
    /\ qrCalls[i].invoice.taxAmount = Fin(FALSE, 15000, 0)
    /\ ~qrCalls[i].result.threw

\* C12: two calls with identical invoice data that carries a fixed
\* timestamp which can be parsed return identical strings, whatever the
\* clock reads at each call.
C12_Deterministic ==
  \A i, j \in 1..Len(qrCalls) :
    LET stored == qrCalls[i].invoice.date
    IN  (/\ qrCalls[i].invoice = qrCalls[j].invoice
         /\ stored.defined
         /\ ~InstantOf(stored.s).nan) =>
          qrCalls[i].result = qrCalls[j].result

\* C13: the returned string is the standard base64 encoding of the
\* concatenated TLV buffer, padded and without line breaks: decoding it
\* gives back exactly the buffer's bytes, and for a buffer of n bytes the
\* string has 4 * ceil(n / 3) characters.
C13_Base64OfBuffer ==
  \A i \in 1..Len(qrCalls) :
    LET call == qrCalls[i]
        buffer == CombineTlv(FieldsOf(call))
        n == Len(buffer)
        text == call.result.value
    IN  ~call.result.threw =>
          /\ IsBase64Text(text)
          /\ Len(text) = 4 * ((n + 2) \div 3)
          /\ PaddingOf(text) = (3 - (n % 3)) % 3
          /\ LET decoded == Base64Decode(text)
             IN  /\ Len(decoded) = n
                 /\ \A k \in 1..n : decoded[k] = buffer[k]

\* A payload whose length is not a multiple of 3 was encoded: its text
\* ends in padding.
C13_Witness ==
  \E i \in 1..Len(qrCalls) :
    /\ ~qrCalls[i].result.threw
    /\ Len(PayloadOf(qrCalls[i])) % 3 = 1
    /\ PaddingOf(qrCalls[i].result.value) = 2

----------------------------------------------------------------------------
(* Properties of the payload builder called from several call sites.       *)

\* C14: generateZatcaQrCode changes no state outside its own local
\* buffers: no step of a call changes the invoice passed in, and every call
\* that ends among interleaved calls of other call sites returns what it
\* returns when it runs alone on that invoice at the instant it read.
C14_NoSharedState ==
  [][/\ invoice' = invoice
     /\ \A c \in Sites :
          (sites[c].pc # "done" /\ sites'[c].pc = "done") =>
            sites'[c].result
              = generateZatcaQrCode(invoice, sites'[c].at, engine)]_vars

\* Two calls were interleaved: site 1, which began after site 2, has
\* returned while site 2 is still between its steps.
C14_Witness ==
  /\ sites[1].pc = "done"
  /\ ~sites[1].result.threw
  /\ sites[2].pc = "combined"
  /\ Later(sites[2].at, sites[1].at)

----------------------------------------------------------------------------
(* Properties of the invoice form.                                         *)

\* C15: in every state of the form reached by addItem and removeItem, the
\* invoice handed to the QR builder has taxAmount >= 0 and
\* total >= taxAmount.
C15_AmountsNonNegative ==
  /\ form.invoice.taxAmount >= 0
  /\ form.invoice.total >= form.invoice.taxAmount

\* C16: in every state of the form reached by addItem, removeItem,
\* updatePaidAmount and updateDiscountAmount, the balance is
\* remaining = total - paid - discount.
C16_Balance ==
  form.invoice.remaining
    = form.invoice.total - form.invoice.paid - form.invoice.discount

\* The sum of quantity * price over the items, from the first item on.
RECURSIVE LineTotal(_, _)
LineTotal(items, from) ==
  IF from > Len(items) THEN 0
  ELSE items[from].quantity * items[from].price + LineTotal(items, from + 1)

\* C17: after every addItem and removeItem, subtotal is the sum of
\* quantity * price over the items now in the invoice, taxAmount is 15% of
\* subtotal and total is subtotal + taxAmount. The other handlers of the
\* form leave the four untouched, so this holds in every state.
C17_Totals ==
  /\ form.invoice.subtotal = LineTotal(form.invoice.items, 1)
  /\ 100 * form.invoice.taxAmount = 15 * form.invoice.subtotal
  /\ form.invoice.total = form.invoice.subtotal + form.invoice.taxAmount

\* Two items of different amounts are in the invoice, the first of them
\* with a price, and the new-item inputs are back at their defaults.
C17_Witness ==
  /\ Len(form.invoice.items) = 2
  /\ form.invoice.items[1].quantity * form.invoice.items[1].price = 20000
  /\ form.invoice.items[2].quantity * form.invoice.items[2].price = -10000
  /\ form.invoice.subtotal = 10000
  /\ form.newItem = InitialNewItem

----------------------------------------------------------------------------
(* Properties of saving and of the invoice service.                        *)

\* The text is empty or made of spaces, tabs and line breaks only.
IsEmptyOrSpaces(s) ==
  \A i \in 1..Len(s) : s[i] \in {9, 10, 13, 32}

\* C18: when the invoice has no items or its number is empty or blank,
\* handleSaveInvoice calls neither createInvoice nor updateInvoice, shows
\* an error message and does not set isSaving.
C18_InvalidNotSaved ==
  [][(/\ handleSaveInvoice
      /\ \/ Len(form.invoice.items) = 0
         \/ IsEmptyOrSpaces(form.invoice.number)) =>
       /\ svc' = svc
       /\ db' = db
       /\ form'.saveMessage.type = "error"
       /\ ~form'.isSaving
       /\ form'.invoice = form.invoice]_vars

\* The save of an invoice with items and a number of one space was
\* refused.
C18_Witness ==
  /\ Len(form.invoice.items) > 0
  /\ form.invoice.number = <<32>>
  /\ form.saveMessage.type = "error"
  /\ ~form.isSaving
  /\ svc.n = 0

\* C19: after updateInvoice succeeds, the item documents stored for that
\* invoice are exactly the items passed in, in the same order with
\* orderIndex 0..n-1, and none of the items stored before the call remain.
C19_ItemsReplaced ==
  (svc.op = "updateInvoice" /\ svc.outcome = "returned") =>
    LET passed == svc.invoice.items
        stored == ItemsOf(svc.invoiceId)
    IN  /\ Cardinality(stored) = Len(passed)
        /\ \A i \in 1..Len(passed) :
             \E d \in stored :
               /\ d.data.orderIndex = i - 1
               /\ d.data.description = passed[i].description
               /\ d.data.quantity = passed[i].quantity
               /\ d.data.price = passed[i].price
               /\ d.data.total = passed[i].total

\* C20: deleteInvoice deletes the invoice document only after the deletion
\* of every item document of that invoice has completed; if an item
\* deletion fails the invoice document is not deleted; and after a
\* successful call neither the invoice nor any of its items is stored.
C20_ItemsDeletedFirst ==
  [][svc'.op = "deleteInvoice" =>
       LET id == svc'.invoiceId
           storedBefore == \E d \in db.invoices : d.id = id
           storedAfter == \E d \in db'.invoices : d.id = id
           itemsAfter == {d \in db'.items : d.data.invoiceId = id}
       IN  /\ (storedBefore /\ ~storedAfter) => itemsAfter = {}
           /\ (svc.pc = "deleting" /\ svc'.outcome = "threw" /\ storedBefore)
                => storedAfter
           /\ svc'.outcome = "returned" => (~storedAfter /\ itemsAfter = {})]_vars

\* A string of decimal digits.
IsDigits(s) ==
  /\ Len(s) > 0
  /\ \A i \in 1..Len(s) : s[i] >= 48 /\ s[i] <= 57

\* The highest of the stored invoice numbers, read as decimal numbers.
HighestStoredNumber ==
  LET values == {ValueOfDigits(d.data.invoiceNumber, 10) : d \in db.invoices}
  IN  CHOOSE v \in values : \A w \in values : w <= v

\* C21: getNextInvoiceNumber returns "0000001" when no invoice is stored or
\* when the lookup fails, and otherwise the highest stored invoice number
\* plus one, left-padded with zeros to at least 7 digits. Stated for the
\* databases whose invoice numbers are all strings of digits.
C21_NextNumber ==
  [][\A ok \in BOOLEAN :
       (/\ loadInvoiceNumberSettled(ok)
        /\ \A d \in db.invoices : IsDigits(d.data.invoiceNumber))
       => LET result == form'.invoice.number
          IN  IF ~ok \/ db.invoices = {}
              THEN result = Number0000001
              ELSE /\ IsDigits(result)
                   /\ Len(result) >= 7
                   /\ Len(result) > 7 => result[1] # 48
                   /\ ValueOfDigits(result, 10) = HighestStoredNumber + 1]_vars

\* What the database d stores of the invoice id: its document and the
\* fields of its item documents.
StoredOf(d, id) ==
  [invoice |-> {x \in d.invoices : x.id = id},
   items |-> {x.data : x \in {y \in d.items : y.data.invoiceId = id}}]

\* C22: if updateInvoice fails at any of its steps, so that it throws, the
\* stored invoice document and its stored items are the same as before the
\* call.
C22_UpdateAllOrNothing ==
  (svc.op = "updateInvoice" /\ svc.pc = "done" /\ svc.outcome = "threw") =>
    StoredOf(db, svc.invoiceId) = StoredOf(svc.before, svc.invoiceId)

\* C23: when two form sessions each obtain a number from
\* getNextInvoiceNumber and then save with createInvoice, in any
\* interleaving, no two stored invoices have the same invoice number.
C23_NumbersUnique ==
  \A d, e \in db.invoices :
    d.id # e.id => d.data.invoiceNumber # e.data.invoiceNumber

\* C24: when the form is opened with an invoiceId, once both loadData and
\* loadInvoiceForEdit have completed, the form's customer is the customer
\* stored on the loaded invoice, whichever of the two completes last.
C24_CustomerOfInvoice ==
  (/\ form.mounted
   /\ form.invoiceId # NoInvoiceId
   /\ form.pending = {}
   /\ form.saveMessage = NoMessage) =>
    \E d \in db.invoices :
      /\ d.id = form.invoiceId
      /\ form.invoice.customer.name = d.data.customerName
      /\ form.invoice.customer.taxNumber = d.data.customerId

\* C25: when the user starts a new invoice with handleNewInvoice while an
\* existing invoice is loaded in the form, the form afterwards holds an
\* empty item list, zero subtotal, tax, total, paid, discount and
\* remaining, and a new invoice number is on its way, so that saving
\* creates an invoice with none of the previous invoice's items.
C25_NewInvoiceIsEmpty ==
  [][(/\ handleNewInvoice
      /\ form.mounted
      /\ form.invoiceId # NoInvoiceId
      /\ form.pending = {}
      /\ form.saveMessage = NoMessage)
     => /\ form'.invoiceId = NoInvoiceId
        /\ form'.invoice.items = <<>>
        /\ form'.invoice.subtotal = 0
        /\ form'.invoice.taxAmount = 0
        /\ form'.invoice.total = 0
        /\ form'.invoice.paid = 0
        /\ form'.invoice.discount = 0
        /\ form'.invoice.remaining = 0
        /\ Effect("loadInvoiceNumber", NoInvoiceId) \in form'.pending]_vars

\* C26: the delayed step that runs 3 seconds after a successful save
\* switches the application to the invoice list only if the user is still
\* on the invoice form; it never changes the current page after the user
\* has navigated to another page in the meantime.
C26_TimerKeepsPage ==
  [][(saveTimeout /\ app.currentPage # "create")
       => app'.currentPage = app.currentPage]_vars

====
